---- MODULE Spec2Model ----
(***************************************************************************)
(* Conversation state machine and turn pipeline of the TAFEP voice         *)
(* chatbot: the conversation loop (src/src/conversation/handler.py), the   *)
(* category classifier (src/src/conversation/analyzer.py), the string      *)
(* normalisation used for dispatch (src/src/utils/helpers.py) and the      *)
(* speech output gate (src/src/services/tts.py).                           *)
(*                                                                         *)
(* Texts are sequences of one-character strings, so that strip, lower,     *)
(* the regular expression of normalize_string and the substring test of    *)
(* _ask_to_file_case are computed character by character.                  *)
(***************************************************************************)
EXTENDS Integers, Sequences, FiniteSets, TLC

(* ---------------------------------------------------------------- bounds *)
\* Number of messages the producer puts into the transcript queue in a run.
MaxMessages == 3
\* Number of concurrent callers of the speech output gate (SpecGate).
NumCallers == 2
\* Length of the exhaustively enumerated inputs of normalize_string (SpecNorm).
MaxNormLen == 2
\* Number of perturbations (case flips, inserted non-letters) of an input.
MaxPerturb == 1
\* Items put into the transcript queue in the runs checked for progress.
MaxLiveMessages == 2
\* Number of items in the prosody scores of a message.
MaxScores == 4
\* Highest level of the scale of emotion scores.
MaxScoreLevel == 2
\* Number of speech segments the socket delivers in a run (SpecTransport).
MaxSegments == 2
\* Threads calling process_recording of one AudioRecorder (SpecRecorder).
NumRecorderThreads == 2
\* Calls of process_recording in a run (SpecRecorder).
MaxRecordings == 4
\* ChatBox.MAX_MESSAGES
MAX_MESSAGES == 50

(* ------------------------------------------------------ program constants *)
\* Config.PROBE_LIMIT, read from the environment (an integer >= 1).
PROBE_LIMIT == 2
\* Config.MAX_CONVERSATION_HISTORY, read from the environment (an integer >= 1).
MAX_CONVERSATION_HISTORY == 2

(* ------------------------------------------------------------- characters *)
LowerLetters ==
  <<"a", "b", "c", "d", "e", "f", "g", "h", "i", "j", "k", "l", "m",
    "n", "o", "p", "q", "r", "s", "t", "u", "v", "w", "x", "y", "z">>
UpperLetters ==
  <<"A", "B", "C", "D", "E", "F", "G", "H", "I", "J", "K", "L", "M",
    "N", "O", "P", "Q", "R", "S", "T", "U", "V", "W", "X", "Y", "Z">>

Range(f) == {f[i] : i \in DOMAIN f}

LowerSet == Range(LowerLetters)
UpperSet == Range(UpperLetters)
IsLower(c) == c \in LowerSet
IsUpper(c) == c \in UpperSet
\* The character class [a-zA-Z] of the regular expression in normalize_string.
IsAlpha(c) == IsLower(c) \/ IsUpper(c)
\* The whitespace characters str.strip() removes (those the model's texts use).
IsSpace(c) == c \in {" ", "\t", "\n"}

IndexOf(c, letters) == CHOOSE i \in DOMAIN letters : letters[i] = c
\* The lower-case letter of each upper-case letter, and the reverse.
ToLower == [c \in UpperSet |-> LowerLetters[IndexOf(c, UpperLetters)]]
ToUpper == [c \in LowerSet |-> UpperLetters[IndexOf(c, LowerLetters)]]
\* str.lower() on one character: ASCII upper-case letters map to lower case.
LowerChar(c) == IF IsUpper(c) THEN ToLower[c] ELSE c
\* str.upper() on one character.
UpperChar(c) == IF IsLower(c) THEN ToUpper[c] ELSE c

\* str.lower()
lower(s) == [i \in DOMAIN s |-> LowerChar(s[i])]

\* re.sub(r'[^a-zA-Z]', '', s): delete every character that is not a letter.
RECURSIVE RemoveNonAlpha(_)
RemoveNonAlpha(s) ==
  IF s = <<>> THEN <<>>
  ELSE IF IsAlpha(Head(s)) THEN <<Head(s)>> \o RemoveNonAlpha(Tail(s))
       ELSE RemoveNonAlpha(Tail(s))

\* A plausible slip: lower-casing forgotten.
normalize_string_nolower(input_string) == RemoveNonAlpha(input_string)

\* helpers.normalize_string
normalize_string(input_string) == lower(RemoveNonAlpha(input_string))

\* str.strip(): drop leading and trailing whitespace.
RECURSIVE LStrip(_)
LStrip(s) == IF s # <<>> /\ IsSpace(Head(s)) THEN LStrip(Tail(s)) ELSE s
RECURSIVE RStrip(_)
RStrip(s) ==
  IF s # <<>> /\ IsSpace(s[Len(s)]) THEN RStrip(SubSeq(s, 1, Len(s) - 1)) ELSE s
strip(s) == RStrip(LStrip(s))

\* The Python test `needle in haystack` on strings.
Contains(haystack, needle) ==
  \E i \in 0..(Len(haystack) - Len(needle)) :
     SubSeq(haystack, i + 1, i + Len(needle)) = needle

(* ------------------------------------------------------------------ texts *)
\* The sentinel "Error" (analyzer.py:103,122; handler.py:106,109,227,231).
S_Error == <<"E", "r", "r", "o", "r">>
\* The needle of the consent test (handler.py:183).
S_yes == <<"y", "e", "s">>
\* handler.py:33
INTRODUCTION ==
  <<"H", "e", "l", "l", "o", ",", " ", "w", "e", "l", "c", "o", "m", "e",
    " ", "t", "o", " ", "T", "A", "F", "E", "P", "!">>
\* handler.py:225
FILED_MESSAGE ==
  <<"T", "h", "a", "n", "k", " ", "y", "o", "u", ".", " ", "Y", "o", "u",
    "r", " ", "c", "a", "s", "e", " ", "h", "a", "s", " ", "b", "e", "e",
    "n", " ", "f", "i", "l", "e", "d", " ", "w", "i", "t", "h", " ", "T",
    "A", "F", "E", "P", ".", " ", "Y", "o", "u", " ", "w", "i", "l", "l",
    " ", "r", "e", "c", "e", "i", "v", "e", " ", "a", " ", "c", "o", "n",
    "f", "i", "r", "m", "a", "t", "i", "o", "n", " ", "e", "m", "a", "i",
    "l", " ", "s", "h", "o", "r", "t", "l", "y", ".">>
\* Keys of the handlers table (handler.py:116-120).
K_establishissue ==
  <<"e", "s", "t", "a", "b", "l", "i", "s", "h", "i", "s", "s", "u", "e">>
K_categorizediscriminationtype ==
  <<"c", "a", "t", "e", "g", "o", "r", "i", "z", "e", "d", "i", "s", "c",
    "r", "i", "m", "i", "n", "a", "t", "i", "o", "n", "t", "y", "p", "e">>
K_probeforfurtherinformation ==
  <<"p", "r", "o", "b", "e", "f", "o", "r", "f", "u", "r", "t", "h", "e",
    "r", "i", "n", "f", "o", "r", "m", "a", "t", "i", "o", "n">>
K_askaboutfilingcase ==
  <<"a", "s", "k", "a", "b", "o", "u", "t", "f", "i", "l", "i", "n", "g",
    "c", "a", "s", "e">>
K_closureconversation ==
  <<"c", "l", "o", "s", "u", "r", "e", "c", "o", "n", "v", "e", "r", "s",
    "a", "t", "i", "o", "n">>
\* The category labels the prompts ask for (analyzer.py:37-41, 48-52).
L_EstablishIssue ==
  <<"E", "s", "t", "a", "b", "l", "i", "s", "h", " ", "I", "s", "s", "u",
    "e">>
L_CategorizeDiscriminationType ==
  <<"C", "a", "t", "e", "g", "o", "r", "i", "z", "e", " ", "D", "i", "s",
    "c", "r", "i", "m", "i", "n", "a", "t", "i", "o", "n", " ", "T", "y",
    "p", "e">>
L_ProbeForFurtherInformation ==
  <<"P", "r", "o", "b", "e", " ", "f", "o", "r", " ", "F", "u", "r", "t",
    "h", "e", "r", " ", "I", "n", "f", "o", "r", "m", "a", "t", "i", "o",
    "n">>
L_AskAboutFilingCase ==
  <<"A", "s", "k", " ", "A", "b", "o", "u", "t", " ", "F", "i", "l", "i",
    "n", "g", " ", "C", "a", "s", "e">>
L_ClosureConversation ==
  <<"C", "l", "o", "s", "u", "r", "e", " ", "C", "o", "n", "v", "e", "r",
    "s", "a", "t", "i", "o", "n">>
\* Provider answers off the requested form.
X_EstablishIssueShouted ==
  <<" ", "E", "S", "T", "A", "B", "L", "I", "S", "H", "-", "I", "S", "S",
    "U", "E", " ">>
X_FortyTwo == <<"4", "2">>
X_Blank == <<" ">>
\* User utterances.
U_Yes == <<"O", "h", " ", "Y", "E", "S">>
U_No == <<"n", "o">>
\* Provider texts for the handlers' prompts, one per task.
T_establish ==
  <<"W", "h", "a", "t", " ", "h", "a", "p", "p", "e", "n", "e", "d", "?">>
T_categorize ==
  <<"I", "s", " ", "i", "t", " ", "a", "b", "o", "u", "t", " ", "a", "g",
    "e", "?">>
T_probe == <<"W", "h", "e", "n", " ", "w", "a", "s", " ", "i", "t", "?">>
T_ask ==
  <<"S", "h", "a", "l", "l", " ", "I", " ", "f", "i", "l", "e", " ", "a",
    " ", "c", "a", "s", "e", "?">>
T_closure == <<"G", "o", "o", "d", "b", "y", "e", ".">>
T_summary == <<"S", "u", "m", "m", "a", "r", "y", ".">>

(* ------------------------------------------------------------- variables *)
VARIABLES
  \* ConversationHandler.handle_conversation (handler.py:19-75)
  conversation_state,       \* the five-field state record (handler.py:24-30)
  conversation_repository,  \* the history list (handler.py:22)
  transcript_queue,         \* queue.Queue read by _get_transcript
  processing_lock,          \* ConversationHandler.processing_lock: its holder
  lpc,                      \* position of the conversation loop
  message,                  \* the message the loop took from the queue
  response,                 \* the result of _generate_response
  \* WebSocketConnection (websocket.py:19-20)
  is_processing_response,
  is_tts_speaking,
  \* TextToSpeech (tts.py:19-22)
  speaking_callback,        \* FALSE: None, TRUE: on_tts_state_change registered
  speaking_event,           \* _speaking_event: TRUE when set
  speaking_lock,            \* _speaking_lock: its holder, or Nobody
  gpc,                      \* position of each caller inside speak_with_*
  gtext,                    \* the text each caller passed
  gmethod,                  \* "wavenet" or "elevenlabs"
  \* the environment and the observations the properties are stated over
  produced,                 \* number of messages put into the queue so far
  taken,                    \* number of items the loop has got from the queue
  probing_questions,        \* number of probing questions generated so far
  turn,                     \* what the turn in flight did (reset when it ends)
  window,                   \* callers whose speaking=true has been delivered
                            \* and whose speaking=false has not
  notified,                 \* the notifications delivered to the observer
                            \* during each caller's speak call, in order
  \* application of normalize_string to enumerated inputs (SpecNorm)
  nIn, nVar, nPerturbed, nPhase, n1, nVar1, n2, nHandler, nVarHandler,
  \* WebSocketConnection.connect / _handle_connection (SpecTransport)
  tpc,                      \* position of connect
  tevent,                   \* the last message received from the socket
  tbuilt,                   \* what _handle_connection returned
  segments,                 \* completed speech segments received so far
  \* SpeechToText.transcribe_audio (SpecTranscribe)
  spc,                      \* position of _transcribe_audio_async
  stoken,                   \* outcome of fetch_access_token
  saudio,                   \* outcome of _process_audio
  sresult,                  \* what _send_to_hume returned
  sreturn,                  \* what transcribe_audio returns
  \* AudioRecorder.process_recording (SpecRecorder)
  is_processing,            \* AudioRecorder.is_processing
  messages,                 \* st.session_state.messages
  rpc,                      \* position of each call of process_recording
  raudio,                   \* the audio each thread passed last
  rresult,                  \* result / bot_response of each call
  rlast,                    \* how each thread's last call went
  transcriptions,           \* number of transcribe_audio calls so far
  recordings                \* number of process_recording calls so far

loopVars == <<conversation_state, conversation_repository, transcript_queue,
              processing_lock, lpc, message, response,
              is_processing_response, produced, taken, turn,
              probing_questions>>
gateVars == <<is_tts_speaking, speaking_callback, speaking_event,
              speaking_lock, gpc, gtext, gmethod, window,
              notified>>
normVars == <<nIn, nVar, nPerturbed, nPhase, n1, nVar1, n2, nHandler,
              nVarHandler>>
transportVars == <<tpc, tevent, tbuilt, segments>>
sttVars == <<spc, stoken, saudio, sresult, sreturn>>
recVars == <<is_processing, messages, rpc, raudio, rresult, rlast,
             transcriptions, recordings>>
ingestVars == <<transportVars, sttVars, recVars>>
vars == <<loopVars, gateVars, normVars, ingestVars>>

(* --------------------------------------------------------------- analyzer *)
\* One provider call, as seen by the caller that awaits it:
\*   kind "ok"    the provider returned `text`;
\*   kind "fail"  the provider client raised (caught at analyzer.py:120);
\*   kind "raise" the await of the call raised at the call site in handler.py
\*                (the analyzer's methods are plain functions, so awaiting
\*                their str result raises TypeError; with an awaitable
\*                analyzer the value is delivered: both are possible here).
\* The form tells what the provider did: it returned a sentence ("text"),
\* blanks or the empty string, or it failed ("none").
\* Config.AI_MODEL: "OpenAI" or "AnthropicAI" (config.py:33, 105). The
\* OpenAI client strips the provider's text, the Anthropic client does not;
\* the provider texts below contain the stripped forms too, so the results
\* under "OpenAI" are among those under "AnthropicAI".
AI_MODEL == "AnthropicAI"

\* Provider texts for a handler's prompt: a sentence, blanks, or nothing.
TaskText(task) ==
  CASE task = "establish"  -> T_establish
    [] task = "categorize" -> T_categorize
    [] task = "probe"      -> T_probe
    [] task = "ask"        -> T_ask
    [] task = "closure"    -> T_closure
    [] task = "summary"    -> T_summary

GenOutcomes ==
  {[kind |-> "ok", form |-> f] : f \in {"text", "blank", "empty"}}
    \cup {[kind |-> "fail", form |-> "none"]}
    \cup {[kind |-> "raise", form |-> f] : f \in {"text", "none"}}

GenResult(task, g) ==
  [kind |-> g.kind,
   text |-> CASE g.form = "text"  -> TaskText(task)
              [] g.form = "blank" -> X_Blank
              [] OTHER            -> <<>>]

\* Provider answers to the classification prompt.
ClassifierTexts ==
  {L_EstablishIssue, L_CategorizeDiscriminationType,
   L_ProbeForFurtherInformation, L_AskAboutFilingCase, L_ClosureConversation,
   X_EstablishIssueShouted, X_FortyTwo, <<>>}

ClassifierOutcomes ==
  {[kind |-> "ok", text |-> t] : t \in ClassifierTexts}
    \cup {[kind |-> k, text |-> <<>>] : k \in {"fail", "raise"}}

\* ConversationAnalyzer._generate_openai_response strips the content,
\* _generate_anthropic_response returns it as it is.
provider_response(r, provider) ==
  IF provider = "OpenAI" THEN strip(r.text) ELSE r.text

\* ConversationAnalyzer.generate_ai_response
generate_ai_response(r, provider) ==
  IF r.kind = "fail" THEN S_Error ELSE provider_response(r, provider)

\* ConversationAnalyzer.analyze_user_input
analyze_user_input(r, provider) == strip(generate_ai_response(r, provider))

(* ---------------------------------------------------------------- handlers *)
\* Outcomes of EmailSender.send_case_email: True, False, or an exception.
EmailOutcomes == {"sent", "not_sent", "raise"}

\* What the oracles answer during one turn.
Oracles ==
  [cls : ClassifierOutcomes, gen : GenOutcomes, mail : EmailOutcomes]

\* A handler's outcome: its return value, or an exception (raised), the
\* conversation state it leaves, and the calls it made, in order.
Returned(reply, st, calls) ==
  [reply |-> reply, raised |-> FALSE, state |-> st, calls |-> calls]
Raised(st, calls) ==
  [reply |-> <<>>, raised |-> TRUE, state |-> st, calls |-> calls]

\* `response = await self.analyzer.generate_ai_response(prompt)` followed by
\* the assignments of `after` and `return response`.
AwaitGenerate(task, g, provider, before, after, calls) ==
  IF g.kind = "raise"
  THEN Raised(before, Append(calls, task))
  ELSE Returned(generate_ai_response(GenResult(task, g), provider), after,
                Append(calls, task))

\* ConversationHandler._generate_case_summary
generate_case_summary(g, provider, st, calls) ==
  AwaitGenerate("summary", g, provider, st, st, calls)

\* A plausible slip: the result of the send is not looked at.
SendCaseEmail_ignores_result(summary, o, st) ==
  IF summary.raised
  THEN Returned(S_Error, st, summary.calls)
  ELSE IF o.mail = "raise"
       THEN Returned(S_Error, st, Append(summary.calls, "send_case_email"))
       ELSE Returned(FILED_MESSAGE, st,
                     Append(summary.calls, "send_case_email"))

\* handler.py:218-231: the email is sent with the summary, unless generating
\* the summary raised; the fixed message is returned when the send reports
\* success, "Error" otherwise.
SendCaseEmail(summary, o, st) ==
  IF summary.raised
  THEN Returned(S_Error, st, summary.calls)
  ELSE IF o.mail = "sent"
       THEN Returned(FILED_MESSAGE, st,
                     Append(summary.calls, "send_case_email"))
       ELSE Returned(S_Error, st, Append(summary.calls, "send_case_email"))

\* ConversationHandler._file_case_and_send_email
file_case_and_send_email(o, provider, st, calls) ==
  SendCaseEmail(generate_case_summary(o.gen, provider, st,
                                      Append(calls, "file_case")), o, st)

\* ConversationHandler._ask_to_file_case
ask_to_file_case(user_input, o, provider, st, calls) ==
  IF Contains(lower(user_input), S_yes)
  THEN file_case_and_send_email(o, provider, st, calls)
  ELSE AwaitGenerate("ask", o.gen, provider, st, st, calls)

\* A plausible slip: establishing the issue anew clears the categorization.
establish_issue_restarts(user_input, o, provider, st, calls) ==
  AwaitGenerate("establish", o.gen, provider, st,
                [st EXCEPT !.issue_established = TRUE,
                           !.discrimination_type_categorized = FALSE],
                calls)

\* ConversationHandler._establish_issue
establish_issue(user_input, o, provider, st, calls) ==
  AwaitGenerate("establish", o.gen, provider, st,
                [st EXCEPT !.issue_established = TRUE], calls)

\* A plausible slip: categorizing marks the issue as established too.
categorize_discrimination_establishes(user_input, o, provider, st, calls) ==
  AwaitGenerate("categorize", o.gen, provider, st,
                [st EXCEPT !.discrimination_type_categorized = TRUE,
                           !.issue_established = TRUE],
                calls)

\* ConversationHandler._categorize_discrimination
categorize_discrimination(user_input, o, provider, st, calls) ==
  AwaitGenerate("categorize", o.gen, provider, st,
                [st EXCEPT !.discrimination_type_categorized = TRUE], calls)

\* A plausible slip: probing is completed one probe early.
ProbeAfterIncrement_early(user_input, o, provider, st1, calls) ==
  IF st1.probe_counter + 1 >= PROBE_LIMIT
  THEN ask_to_file_case(user_input, o, provider,
                        [st1 EXCEPT !.probing_completed = TRUE], calls)
  ELSE AwaitGenerate("probe", o.gen, provider, st1, st1, calls)

\* A plausible slip: the limit is compared with > instead of >=.
ProbeAfterIncrement_late(user_input, o, provider, st1, calls) ==
  IF st1.probe_counter > PROBE_LIMIT
  THEN ask_to_file_case(user_input, o, provider,
                        [st1 EXCEPT !.probing_completed = TRUE], calls)
  ELSE AwaitGenerate("probe", o.gen, provider, st1, st1, calls)

\* handler.py:163-179: with the counter already incremented (st1), the
\* limit test, the hand-over to _ask_to_file_case, or the probing question.
ProbeAfterIncrement(user_input, o, provider, st1, calls) ==
  IF st1.probe_counter >= PROBE_LIMIT
  THEN ask_to_file_case(user_input, o, provider,
                        [st1 EXCEPT !.probing_completed = TRUE], calls)
  ELSE AwaitGenerate("probe", o.gen, provider, st1, st1, calls)

\* ConversationHandler._probe_further_information
probe_further_information(user_input, o, provider, st, calls) ==
  ProbeAfterIncrement(user_input, o, provider,
                      [st EXCEPT !.probe_counter = @ + 1], calls)

\* A plausible slip: closing the conversation resets the probe counter.
closure_conversation_resets(user_input, o, provider, st, calls) ==
  AwaitGenerate("closure", o.gen, provider, st,
                [st EXCEPT !.probe_counter = 0], calls)

\* ConversationHandler._closure_conversation
closure_conversation(user_input, o, provider, st, calls) ==
  AwaitGenerate("closure", o.gen, provider, st, st, calls)

\* The handlers table (handler.py:115-123); "None" is dict.get's miss.
handlers_get(key) ==
  CASE key = K_establishissue               -> "_establish_issue"
    [] key = K_categorizediscriminationtype -> "_categorize_discrimination"
    [] key = K_probeforfurtherinformation   -> "_probe_further_information"
    [] key = K_askaboutfilingcase           -> "_ask_to_file_case"
    [] key = K_closureconversation          -> "_closure_conversation"
    [] OTHER                                -> "None"

\* A plausible slip: the category is looked up as the classifier wrote it.
get_handler_function_raw(category) == handlers_get(category)

\* ConversationHandler._get_handler_function
get_handler_function(category) == handlers_get(normalize_string(category))

\* `await handler(user_input, emotions, conversation_repository,
\* conversation_state)` (handler.py:103)
CallHandler(handler, user_input, o, provider, st) ==
  CASE handler = "_establish_issue" ->
         establish_issue(user_input, o, provider, st, <<>>)
    [] handler = "_categorize_discrimination" ->
         categorize_discrimination(user_input, o, provider, st, <<>>)
    [] handler = "_probe_further_information" ->
         probe_further_information(user_input, o, provider, st, <<>>)
    [] handler = "_ask_to_file_case" ->
         ask_to_file_case(user_input, o, provider, st, <<>>)
    [] handler = "_closure_conversation" ->
         closure_conversation(user_input, o, provider, st, <<>>)

\* handler.py:103-109: the handler's return value, or "Error" for an
\* exception it raised.
AbsorbHandler(category, handler, h) ==
  [category |-> category, handler |-> handler,
   reply |-> IF h.raised THEN S_Error ELSE h.reply,
   state |-> h.state, calls |-> h.calls, raised |-> h.raised]

\* A plausible slip: a handler is run although the lookup found none.
Dispatch_default_handler(category, handler, user_input, o, provider, st) ==
  AbsorbHandler(category, handler,
                CallHandler(IF handler = "None" THEN "_establish_issue"
                            ELSE handler, user_input, o, provider, st))

\* handler.py:101-106: no handler means "Error"; otherwise it is awaited.
Dispatch(category, handler, user_input, o, provider, st) ==
  IF handler = "None"
  THEN [category |-> category, handler |-> handler, reply |-> S_Error,
        state |-> st, calls |-> <<>>, raised |-> FALSE]
  ELSE AbsorbHandler(category, handler,
                     CallHandler(handler, user_input, o, provider, st))

\* handler.py:94-101: the category is looked up in the handlers table.
Lookup(category, user_input, o, provider, st) ==
  Dispatch(category, get_handler_function(category), user_input, o,
           provider, st)

\* ConversationHandler._generate_response: the category the analyzer gave,
\* the handler looked up, and the handler's outcome with every exception
\* turned into "Error" (handler.py:107-109).
generate_response(user_input, o, provider, st) ==
  IF o.cls.kind = "raise"
  THEN [category |-> <<>>, handler |-> "None", reply |-> S_Error,
        state |-> st, calls |-> <<>>, raised |-> TRUE]
  ELSE Lookup(analyze_user_input(o.cls, provider), user_input, o, provider,
              st)

(* ------------------------------------------------------ speech output gate *)
\* Callers of the gate: the conversation loop, and clients that call
\* speak_with_wavenet / speak_with_elevenlabs concurrently (SpecGate).
LoopCaller == 0
ExternalCallers == 1..NumCallers
Callers == {LoopCaller} \cup ExternalCallers
Nobody == -1

\* `not text or len(text.strip()) == 0` (tts.py:47, 108)
IsBlank(text) == strip(text) = <<>>

\* TextToSpeech._notify_speaking_state with WebSocketConnection
\* .on_tts_state_change as the callback: nothing happens without a callback.
NotifySpeakingState(c, is_speaking) ==
  /\ is_tts_speaking' = IF speaking_callback THEN is_speaking
                        ELSE is_tts_speaking
  /\ window' = IF ~speaking_callback THEN window
               ELSE IF is_speaking THEN window \cup {c} ELSE window \ {c}
  /\ notified' = IF speaking_callback
                 THEN [notified EXCEPT ![c] = Append(@, is_speaking)]
                 ELSE notified

\* TextToSpeech.register_speaking_callback
RegisterSpeakingCallback ==
  /\ ~speaking_callback
  /\ speaking_callback' = TRUE
  /\ UNCHANGED <<is_tts_speaking, speaking_event, speaking_lock, gpc, gtext,
                 gmethod, window, notified>>
  /\ UNCHANGED <<loopVars, normVars, ingestVars>>

\* A plausible slip: the check for blank text is missing.
Speak_without_blank_check(c, text, method) ==
  /\ gpc[c] = "idle"
  /\ gpc' = [gpc EXCEPT ![c] = "lock"]
  /\ gtext' = [gtext EXCEPT ![c] = text]
  /\ gmethod' = [gmethod EXCEPT ![c] = method]
  /\ UNCHANGED <<is_tts_speaking, speaking_callback, speaking_event,
                 speaking_lock, window, notified>>

\* The call of speak_with_wavenet / speak_with_elevenlabs up to the lock:
\* blank text returns at once (tts.py:47-49, 108-110).
Speak(c, text, method) ==
  /\ gpc[c] = "idle"
  /\ gpc' = [gpc EXCEPT ![c] = IF IsBlank(text) THEN "returned" ELSE "lock"]
  /\ gtext' = [gtext EXCEPT ![c] = text]
  /\ gmethod' = [gmethod EXCEPT ![c] = method]
  /\ UNCHANGED <<is_tts_speaking, speaking_callback, speaking_event,
                 speaking_lock, window, notified>>

\* `async with self._speaking_lock` (tts.py:51, 112)
AcquireLock(c) ==
  /\ gpc[c] = "lock"
  /\ speaking_lock = Nobody
  /\ speaking_lock' = c
  /\ gpc' = [gpc EXCEPT ![c] = "event"]
  /\ UNCHANGED <<is_tts_speaking, speaking_callback, speaking_event, gtext,
                 gmethod, window, notified>>
  /\ UNCHANGED <<loopVars, normVars, ingestVars>>

\* `await self._speaking_event.wait(); self._speaking_event.clear()`
WaitEvent(c) ==
  /\ gpc[c] = "event"
  /\ speaking_event
  /\ speaking_event' = FALSE
  /\ gpc' = [gpc EXCEPT ![c] = "notify"]
  /\ UNCHANGED <<is_tts_speaking, speaking_callback, speaking_lock, gtext,
                 gmethod, window, notified>>
  /\ UNCHANGED <<loopVars, normVars, ingestVars>>

\* `await self._notify_speaking_state(True)` (tts.py:58, 119)
NotifyStart(c) ==
  /\ gpc[c] = "notify"
  /\ NotifySpeakingState(c, TRUE)
  /\ gpc' = [gpc EXCEPT ![c] = "synth"]
  /\ UNCHANGED <<speaking_callback, speaking_event, speaking_lock, gtext,
                 gmethod>>
  /\ UNCHANGED <<loopVars, normVars, ingestVars>>

\* The synthesis request and the write of the audio file (tts.py:60-88,
\* 121-153): it succeeds, or raises into the except clause.
Synthesize(c) ==
  /\ gpc[c] = "synth"
  /\ \E ok \in BOOLEAN :
       gpc' = [gpc EXCEPT ![c] = IF ok THEN "play" ELSE "except"]
  /\ UNCHANGED <<is_tts_speaking, speaking_callback, speaking_event,
                 speaking_lock, gtext, gmethod, window, notified>>
  /\ UNCHANGED <<loopVars, normVars, ingestVars>>

\* A plausible slip: the speaking=false notification after a successful
\* playback is missing.
PlayAudio_silent_end(c) ==
  /\ gpc[c] = "play"
  /\ \E ok \in BOOLEAN :
       IF ok
       THEN /\ gpc' = [gpc EXCEPT ![c] = "finally"]
            /\ UNCHANGED <<is_tts_speaking, window, notified>>
       ELSE /\ gpc' = [gpc EXCEPT ![c] = "except"]
            /\ NotifySpeakingState(c, FALSE)
  /\ UNCHANGED <<speaking_callback, speaking_event, speaking_lock, gtext,
                 gmethod>>
  /\ UNCHANGED <<loopVars, normVars, ingestVars>>

\* TextToSpeech._play_audio: plays and notifies speaking=false; a failure
\* notifies speaking=false too and raises into the caller's except clause.
PlayAudio(c) ==
  /\ gpc[c] = "play"
  /\ \E ok \in BOOLEAN :
       gpc' = [gpc EXCEPT ![c] = IF ok THEN "finally" ELSE "except"]
  /\ NotifySpeakingState(c, FALSE)
  /\ UNCHANGED <<speaking_callback, speaking_event, speaking_lock, gtext,
                 gmethod>>
  /\ UNCHANGED <<loopVars, normVars, ingestVars>>

\* A plausible slip: the except clause only logs.
Except_silent(c) ==
  /\ gpc[c] = "except"
  /\ gpc' = [gpc EXCEPT ![c] = "finally"]
  /\ UNCHANGED <<is_tts_speaking, speaking_callback, speaking_event,
                 speaking_lock, gtext, gmethod, window, notified>>
  /\ UNCHANGED <<loopVars, normVars, ingestVars>>

\* `except Exception: await self._notify_speaking_state(False)`
\* (tts.py:93-95, 158-160)
Except(c) ==
  /\ gpc[c] = "except"
  /\ NotifySpeakingState(c, FALSE)
  /\ gpc' = [gpc EXCEPT ![c] = "finally"]
  /\ UNCHANGED <<speaking_callback, speaking_event, speaking_lock, gtext,
                 gmethod>>
  /\ UNCHANGED <<loopVars, normVars, ingestVars>>

\* A plausible slip: the lock is released without setting the event again.
Finally_without_set(c) ==
  /\ gpc[c] = "finally"
  /\ speaking_lock' = Nobody
  /\ gpc' = [gpc EXCEPT ![c] = "returned"]
  /\ UNCHANGED <<is_tts_speaking, speaking_callback, speaking_event, gtext,
                 gmethod, window, notified>>
  /\ UNCHANGED <<loopVars, normVars, ingestVars>>

\* `finally: self._speaking_event.set()` and the release of the lock at the
\* end of the `async with` block; the call returns.
Finally(c) ==
  /\ gpc[c] = "finally"
  /\ speaking_event' = TRUE
  /\ speaking_lock' = Nobody
  /\ gpc' = [gpc EXCEPT ![c] = "returned"]
  /\ UNCHANGED <<is_tts_speaking, speaking_callback, gtext, gmethod,
                 window, notified>>
  /\ UNCHANGED <<loopVars, normVars, ingestVars>>

GateStep(c) ==
  \/ AcquireLock(c)
  \/ WaitEvent(c)
  \/ NotifyStart(c)
  \/ Synthesize(c)
  \/ PlayAudio(c)
  \/ Except(c)
  \/ Finally(c)

\* The caller's coroutine resumes after its speak call.
SpeakReturned(c) ==
  /\ gpc[c] = "returned"
  /\ gpc' = [gpc EXCEPT ![c] = "idle"]
  /\ gtext' = [gtext EXCEPT ![c] = <<>>]
  /\ gmethod' = [gmethod EXCEPT ![c] = "none"]
  /\ notified' = [notified EXCEPT ![c] = <<>>]
  /\ UNCHANGED <<is_tts_speaking, speaking_callback, speaking_event,
                 speaking_lock, window>>

\* Texts the concurrent clients speak.
ExternalTexts == {T_ask, X_Blank, <<>>}

\* A client calls speak_with_wavenet or speak_with_elevenlabs.
ExternalSpeak(c) ==
  /\ \E text \in ExternalTexts, method \in {"wavenet", "elevenlabs"} :
        Speak(c, text, method)
  /\ UNCHANGED <<loopVars, normVars, ingestVars>>

ExternalReturn(c) ==
  /\ SpeakReturned(c)
  /\ UNCHANGED <<loopVars, normVars, ingestVars>>

(* ------------------------------------------------------- conversation loop *)
\* Items the producer may put into the transcript queue: a TurnMessage, and
\* a dict without a "type" key. seq is the item's arrival number, which the
\* producer's put assigns; the program does not read it.
UserTexts == {U_Yes, U_No}

TurnMessage(text) ==
  [kind |-> "dict", type |-> "transcript", text |-> text, emotions |-> <<>>,
   seq |-> 0]
NoMessage ==
  [kind |-> "none", type |-> "", text |-> <<>>, emotions |-> <<>>,
   seq |-> 0]
OtherItems ==
  {[kind |-> "dict", type |-> "<missing>", text |-> <<>>, emotions |-> <<>>,
    seq |-> 0]}
QueueItems == {TurnMessage(t) : t \in UserTexts} \cup OtherItems

\* The condition of handler.py:42; message["type"] raises KeyError on a dict
\* without that key, which the except clause of handler.py:73 absorbs.
IsTranscript(m) == m.kind = "dict" /\ m.type = "transcript"

\* handler.py:24-30
InitialState ==
  [issue_established |-> FALSE,
   discrimination_type_categorized |-> FALSE,
   probe_counter |-> 0,
   probing_completed |-> FALSE,
   user_agreed_to_file_case |-> FALSE]

\* What the turn in flight did: its input, the state before it, the
\* category and handler, the calls made, whether an exception was absorbed,
\* whether an utterance was handed to the gate, what the provider answered
\* to the handler's prompt and the email outcome (when there was a send).
IdleTurn ==
  [active |-> FALSE, input |-> <<>>, pre |-> InitialState, category |-> <<>>,
   handler |-> "None", calls |-> <<>>, raised |-> FALSE, generated |-> FALSE,
   routed |-> FALSE, gen |-> [kind |-> "none", form |-> "none"],
   mail |-> "none"]

\* The producer (the audio-ingestion side) puts an item into the queue.
Put ==
  /\ produced < MaxMessages
  /\ \E m \in QueueItems :
        transcript_queue' =
          Append(transcript_queue, [m EXCEPT !.seq = produced + 1])
  /\ produced' = produced + 1
  /\ UNCHANGED <<conversation_state, conversation_repository, processing_lock,
                 lpc, message, response, is_processing_response,
                 taken, turn, probing_questions>>
  /\ UNCHANGED <<gateVars, normVars, ingestVars>>

\* Items put in the runs checked for progress: a TurnMessage, and a dict
\* without a "type" key.
LiveItems == {TurnMessage(U_No)} \cup OtherItems

\* The producer's put, in the runs checked for progress.
PutLive ==
  /\ produced < MaxLiveMessages
  /\ \E m \in LiveItems :
        transcript_queue' =
          Append(transcript_queue, [m EXCEPT !.seq = produced + 1])
  /\ produced' = produced + 1
  /\ UNCHANGED <<conversation_state, conversation_repository, processing_lock,
                 lpc, message, response, is_processing_response,
                 taken, turn, probing_questions>>
  /\ UNCHANGED <<gateVars, normVars, ingestVars>>

\* handler.py:32-35: the greeting is spoken under the processing lock.
Greet ==
  /\ lpc = "start"
  /\ processing_lock' = TRUE
  /\ Speak(LoopCaller, INTRODUCTION, "wavenet")
  /\ lpc' = "greeting"
  /\ UNCHANGED <<conversation_state, conversation_repository,
                 transcript_queue, message, response,
                 is_processing_response, produced,
                 probing_questions, taken, turn>>
  /\ UNCHANGED <<normVars, ingestVars>>

\* A plausible slip: the greeting's speak call is not awaited.
GreetDone_not_awaited ==
  /\ lpc = "greeting"
  /\ processing_lock' = FALSE
  /\ lpc' = "get"
  /\ UNCHANGED <<conversation_state, conversation_repository,
                 transcript_queue, message, response,
                 is_processing_response, produced, probing_questions, taken,
                 turn>>
  /\ UNCHANGED <<gateVars, normVars, ingestVars>>

\* The greeting's speak call has returned; the lock is released.
GreetDone ==
  /\ lpc = "greeting"
  /\ SpeakReturned(LoopCaller)
  /\ processing_lock' = FALSE
  /\ lpc' = "get"
  /\ UNCHANGED <<conversation_state, conversation_repository,
                 transcript_queue, message, response,
                 is_processing_response, produced,
                 probing_questions, taken, turn>>
  /\ UNCHANGED <<normVars, ingestVars>>

\* A plausible slip: the timeout is taken for an accepted message.
Timeout_sets_flag ==
  /\ lpc = "get"
  /\ transcript_queue = <<>>
  /\ lpc' = "timeout"
  /\ is_processing_response' = TRUE
  /\ UNCHANGED <<conversation_state, conversation_repository,
                 transcript_queue, processing_lock, message, response,
                 produced, probing_questions, taken, turn>>
  /\ UNCHANGED <<gateVars, normVars, ingestVars>>

\* _get_transcript on an empty queue: queue.Empty after the timeout is
\* caught (handler.py:84-88) and None is returned to the loop.
Timeout ==
  /\ lpc = "get"
  /\ transcript_queue = <<>>
  /\ lpc' = "timeout"
  /\ UNCHANGED <<conversation_state, conversation_repository,
                 transcript_queue, processing_lock, message, response,
                 is_processing_response, produced,
                 probing_questions, taken, turn>>
  /\ UNCHANGED <<gateVars, normVars, ingestVars>>

\* handler.py:42: the condition is false for None; the loop iterates.
TimeoutContinue ==
  /\ lpc = "timeout"
  /\ lpc' = "get"
  /\ UNCHANGED <<conversation_state, conversation_repository,
                 transcript_queue, processing_lock, message, response,
                 is_processing_response, produced,
                 probing_questions, taken, turn>>
  /\ UNCHANGED <<gateVars, normVars, ingestVars>>

\* An item that is no transcript message is taken and dropped: the
\* condition of handler.py:42 is false, or message["type"] raises KeyError
\* and the except clause of handler.py:73-75 continues the loop.
TakeIgnored ==
  /\ lpc = "get"
  /\ transcript_queue # <<>>
  /\ ~IsTranscript(Head(transcript_queue))
  /\ transcript_queue' = Tail(transcript_queue)
  /\ taken' = taken + 1
  /\ UNCHANGED <<conversation_state, conversation_repository, processing_lock,
                 lpc, message, response, is_processing_response,
                 produced, probing_questions, turn>>
  /\ UNCHANGED <<gateVars, normVars, ingestVars>>

\* A plausible slip: the queue is emptied when a message is taken.
TakeTranscript_drop_pending ==
  /\ lpc = "get"
  /\ transcript_queue # <<>>
  /\ IsTranscript(Head(transcript_queue))
  /\ message' = Head(transcript_queue)
  /\ transcript_queue' = <<>>
  /\ is_processing_response' = TRUE
  /\ turn' = [IdleTurn EXCEPT !.active = TRUE,
                              !.input = message'.text,
                              !.pre = conversation_state]
  /\ taken' = taken + 1
  /\ lpc' = "generate"
  /\ UNCHANGED <<conversation_state, conversation_repository, processing_lock,
                 response, produced, probing_questions>>
  /\ UNCHANGED <<gateVars, normVars, ingestVars>>

\* A plausible slip: the newest message is taken first.
TakeTranscript_lifo ==
  /\ lpc = "get"
  /\ transcript_queue # <<>>
  /\ IsTranscript(transcript_queue[Len(transcript_queue)])
  /\ message' = transcript_queue[Len(transcript_queue)]
  /\ transcript_queue' =
       SubSeq(transcript_queue, 1, Len(transcript_queue) - 1)
  /\ is_processing_response' = TRUE
  /\ turn' = [IdleTurn EXCEPT !.active = TRUE,
                              !.input = message'.text,
                              !.pre = conversation_state]
  /\ taken' = taken + 1
  /\ lpc' = "generate"
  /\ UNCHANGED <<conversation_state, conversation_repository, processing_lock,
                 response, produced, probing_questions>>
  /\ UNCHANGED <<gateVars, normVars, ingestVars>>

\* A plausible slip: the processing flag is not set for the turn.
TakeTranscript_without_flag ==
  /\ lpc = "get"
  /\ transcript_queue # <<>>
  /\ IsTranscript(Head(transcript_queue))
  /\ message' = Head(transcript_queue)
  /\ transcript_queue' = Tail(transcript_queue)
  /\ turn' = [IdleTurn EXCEPT !.active = TRUE,
                              !.input = Head(transcript_queue).text,
                              !.pre = conversation_state]
  /\ taken' = taken + 1
  /\ lpc' = "generate"
  /\ UNCHANGED <<conversation_state, conversation_repository, processing_lock,
                 response, is_processing_response, produced,
                 probing_questions>>
  /\ UNCHANGED <<gateVars, normVars, ingestVars>>

\* handler.py:40-47: a transcript message is taken, the processing flag set.
TakeTranscript ==
  /\ lpc = "get"
  /\ transcript_queue # <<>>
  /\ IsTranscript(Head(transcript_queue))
  /\ message' = Head(transcript_queue)
  /\ transcript_queue' = Tail(transcript_queue)
  /\ is_processing_response' = TRUE
  /\ turn' = [IdleTurn EXCEPT !.active = TRUE,
                              !.input = Head(transcript_queue).text,
                              !.pre = conversation_state]
  /\ taken' = taken + 1
  /\ lpc' = "generate"
  /\ UNCHANGED <<conversation_state, conversation_repository, processing_lock,
                 response, produced, probing_questions>>
  /\ UNCHANGED <<gateVars, normVars, ingestVars>>

\* handler.py:51-56: `response = await self._generate_response(...)`.
GenerateResponse ==
  /\ lpc = "generate"
  /\ \E o \in Oracles :
       \E g \in {generate_response(message.text, o, AI_MODEL,
                                  conversation_state)} :
           /\ response' = g.reply
           /\ conversation_state' = g.state
           /\ turn' = [turn EXCEPT !.category = g.category,
                                   !.handler = g.handler,
                                   !.calls = g.calls,
                                   !.raised = g.raised,
                                   !.generated = TRUE,
                                   !.gen = IF g.calls = <<>>
                                           THEN IdleTurn.gen ELSE o.gen,
                                   !.mail = IF "send_case_email" \in Range(g.calls)
                                            THEN o.mail ELSE "none"]
           /\ probing_questions' =
                probing_questions
                  + Cardinality({i \in DOMAIN g.calls : g.calls[i] = "probe"})
  /\ lpc' = "respond"
  /\ UNCHANGED <<conversation_repository, transcript_queue, processing_lock,
                 message, is_processing_response, produced, taken>>
  /\ UNCHANGED <<gateVars, normVars, ingestVars>>

\* A plausible slip: the flag is reset after the speak call only, not in a
\* finally clause, so a turn without an utterance leaves it set.
RespondNothing_skip_finally ==
  /\ lpc = "respond"
  /\ (response = <<>> \/ response = S_Error)
  /\ lpc' = "get"
  /\ message' = NoMessage
  /\ response' = <<>>
  /\ turn' = IdleTurn
  /\ UNCHANGED <<conversation_state, conversation_repository,
                 transcript_queue, processing_lock, is_processing_response,
                 produced, probing_questions, taken>>
  /\ UNCHANGED <<gateVars, normVars, ingestVars>>

\* handler.py:58-60: an empty response or "Error" is logged, at most.
RespondNothing ==
  /\ lpc = "respond"
  /\ (response = <<>> \/ response = S_Error)
  /\ lpc' = "finally"
  /\ UNCHANGED <<conversation_state, conversation_repository,
                 transcript_queue, processing_lock, message, response,
                 is_processing_response, produced,
                 probing_questions, taken, turn>>
  /\ UNCHANGED <<gateVars, normVars, ingestVars>>

\* A plausible slip: the processing flag is reset before the speak call.
RespondSpeak_flag_reset ==
  /\ lpc = "respond"
  /\ response # <<>>
  /\ response # S_Error
  /\ conversation_repository' =
       Append(conversation_repository,
              [role |-> "assistant", content |-> response])
  /\ Speak(LoopCaller, response, "wavenet")
  /\ turn' = [turn EXCEPT !.routed = TRUE]
  /\ is_processing_response' = FALSE
  /\ lpc' = "speaking"
  /\ UNCHANGED <<conversation_state, transcript_queue, processing_lock,
                 message, response, produced, probing_questions, taken>>
  /\ UNCHANGED <<normVars, ingestVars>>

\* handler.py:61-68: the response is appended to the history and spoken.
RespondSpeak ==
  /\ lpc = "respond"
  /\ response # <<>>
  /\ response # S_Error
  /\ conversation_repository' =
       Append(conversation_repository,
              [role |-> "assistant", content |-> response])
  /\ Speak(LoopCaller, response, "wavenet")
  /\ turn' = [turn EXCEPT !.routed = TRUE]
  /\ lpc' = "speaking"
  /\ UNCHANGED <<conversation_state, transcript_queue, processing_lock,
                 message, response, is_processing_response,
                 produced, probing_questions, taken>>
  /\ UNCHANGED <<normVars, ingestVars>>

\* A plausible slip: the speak call is not awaited.
SpeakDone_not_awaited ==
  /\ lpc = "speaking"
  /\ lpc' = "finally"
  /\ UNCHANGED <<conversation_state, conversation_repository,
                 transcript_queue, processing_lock, message, response,
                 is_processing_response, produced,
                 probing_questions, taken, turn>>
  /\ UNCHANGED <<gateVars, normVars, ingestVars>>

\* `await self.tts_service.speak_with_wavenet(response)` has returned.
SpeakDone ==
  /\ lpc = "speaking"
  /\ SpeakReturned(LoopCaller)
  /\ lpc' = "finally"
  /\ UNCHANGED <<conversation_state, conversation_repository,
                 transcript_queue, processing_lock, message, response,
                 is_processing_response, produced,
                 probing_questions, taken, turn>>
  /\ UNCHANGED <<normVars, ingestVars>>

\* A plausible slip: what arrived during the turn is discarded at its end.
ResetFlag_discards_pending ==
  /\ lpc = "finally"
  /\ is_processing_response' = FALSE
  /\ message' = NoMessage
  /\ response' = <<>>
  /\ turn' = IdleTurn
  /\ transcript_queue' = <<>>
  /\ lpc' = "get"
  /\ UNCHANGED <<conversation_state, conversation_repository,
                 processing_lock, produced, probing_questions, taken>>
  /\ UNCHANGED <<gateVars, normVars, ingestVars>>

\* handler.py:69-71: the finally clause resets the processing flag; the
\* loop goes back to _get_transcript.
ResetFlag ==
  /\ lpc = "finally"
  /\ is_processing_response' = FALSE
  /\ message' = NoMessage
  /\ response' = <<>>
  /\ turn' = IdleTurn
  /\ lpc' = "get"
  /\ UNCHANGED <<conversation_state, conversation_repository,
                 transcript_queue, processing_lock, produced,
                 probing_questions, taken>>
  /\ UNCHANGED <<gateVars, normVars, ingestVars>>

(* ------------------------------------------- normalize_string on inputs *)
NonLetters == {" ", "-", "4"}
NormAlphabet == {"a", "B"} \cup NonLetters

SeqsUpTo(S, n) == UNION {[1..k -> S] : k \in 0..n}

NormInputs ==
  {L_EstablishIssue, K_establishissue, X_EstablishIssueShouted,
   L_AskAboutFilingCase, S_Error} \cup SeqsUpTo(NormAlphabet, MaxNormLen)

FlipChar(c) == IF IsUpper(c) THEN LowerChar(c) ELSE UpperChar(c)

\* The variant gets the case of one letter flipped.
FlipCase ==
  /\ nPhase = "input"
  /\ nPerturbed < MaxPerturb
  /\ \E i \in DOMAIN nVar :
        /\ IsAlpha(nVar[i])
        /\ nVar' = [nVar EXCEPT ![i] = FlipChar(@)]
  /\ nPerturbed' = nPerturbed + 1
  /\ UNCHANGED <<nIn, nPhase, n1, nVar1, n2, nHandler, nVarHandler>>
  /\ UNCHANGED <<loopVars, gateVars, ingestVars>>

\* The variant gets a character that is no letter inserted.
InsertNonLetter ==
  /\ nPhase = "input"
  /\ nPerturbed < MaxPerturb
  /\ \E i \in 0..Len(nVar), c \in NonLetters :
        nVar' = SubSeq(nVar, 1, i) \o <<c>> \o SubSeq(nVar, i + 1, Len(nVar))
  /\ nPerturbed' = nPerturbed + 1
  /\ UNCHANGED <<nIn, nPhase, n1, nVar1, n2, nHandler, nVarHandler>>
  /\ UNCHANGED <<loopVars, gateVars, ingestVars>>

\* normalize_string and the handler lookup are applied to the input and to
\* its variant.
Normalize ==
  /\ nPhase = "input"
  /\ n1' = normalize_string(nIn)
  /\ nVar1' = normalize_string(nVar)
  /\ nHandler' = get_handler_function(nIn)
  /\ nVarHandler' = get_handler_function(nVar)
  /\ nPhase' = "normalized"
  /\ UNCHANGED <<nIn, nVar, nPerturbed, n2>>
  /\ UNCHANGED <<loopVars, gateVars, ingestVars>>

\* normalize_string is applied to its own result.
Renormalize ==
  /\ nPhase = "normalized"
  /\ n2' = normalize_string(n1)
  /\ nPhase' = "done"
  /\ UNCHANGED <<nIn, nVar, nPerturbed, n1, nVar1, nHandler, nVarHandler>>
  /\ UNCHANGED <<loopVars, gateVars, ingestVars>>

(* --------------------------------------------------- audio ingestion *)
\* Prosody scores of a Hume message: a JSON object, here the sequence of its
\* items in the object's order. A score is a number (val, a level of the
\* scale 0..MaxScoreLevel) or no number (JSON null).
EmotionLabels == <<"anger", "joy", "fear", "calm", "sadness", "surprise">>

ProsodyScores ==
  UNION {{[i \in 1..k |-> [label |-> EmotionLabels[i], score |-> f[i]]] :
            f \in [1..k -> [num : {TRUE}, val : 0..MaxScoreLevel]
                              \cup {[num |-> FALSE, val |-> 0]}]} :
         k \in 0..MaxScores}

\* `x[1] >= y[1]` on two scores; comparing with None raises TypeError.
ScoresComparable(items) ==
  Len(items) <= 1 \/ \A i \in DOMAIN items : items[i].score.num

\* The place of x in a list sorted by non-increasing score: behind every
\* element whose score is not smaller (the sort is stable).
RECURSIVE InsertByScore(_, _)
InsertByScore(x, s) ==
  IF s = <<>> THEN <<x>>
  ELSE IF Head(s).score.val >= x.score.val
       THEN <<Head(s)>> \o InsertByScore(x, Tail(s))
       ELSE <<x>> \o s

\* sorted(prosody_scores.items(), key=lambda x: x[1], reverse=True)
RECURSIVE sorted_by_score(_)
sorted_by_score(items) ==
  IF items = <<>> THEN <<>>
  ELSE InsertByScore(items[Len(items)],
                     sorted_by_score(SubSeq(items, 1, Len(items) - 1)))

\* items[:3]
FirstThree(items) == SubSeq(items, 1, IF Len(items) < 3 THEN Len(items) ELSE 3)

\* A plausible slip: the list is cut to three before it is sorted.
process_emotion_data_cut_first(prosody_scores) ==
  IF ~ScoresComparable(FirstThree(prosody_scores))
  THEN <<>>
  ELSE IF \E i \in DOMAIN FirstThree(prosody_scores) :
             ~prosody_scores[i].score.num
       THEN <<>>
       ELSE [i \in DOMAIN FirstThree(prosody_scores) |->
               [label |-> sorted_by_score(FirstThree(prosody_scores))[i].label,
                score |->
                  sorted_by_score(FirstThree(prosody_scores))[i].score.val]]

\* WebSocketConnection._process_emotion_data: the three items of highest
\* score, as (label, float(score)) pairs, float(score) of a number being that
\* number; [] when the sort raises, or float(None) does
\* (websocket.py:192-194).
process_emotion_data(prosody_scores) ==
  IF ~ScoresComparable(prosody_scores)
  THEN <<>>
  ELSE IF \E i \in DOMAIN FirstThree(sorted_by_score(prosody_scores)) :
             ~FirstThree(sorted_by_score(prosody_scores))[i].score.num
       THEN <<>>
       ELSE [i \in DOMAIN FirstThree(sorted_by_score(prosody_scores)) |->
               [label |-> sorted_by_score(prosody_scores)[i].label,
                score |-> sorted_by_score(prosody_scores)[i].score.val]]

\* Messages the socket delivers: text that is no JSON, a JSON object of
\* another type, a transcription event, and a user_message event with or
\* without a "models" key.
SocketMessages ==
  {[kind |-> k, text |-> <<>>, scores |-> <<>>] :
      k \in {"invalid_json", "other_type"}}
    \cup {[kind |-> "transcription", text |-> t, scores |-> <<>>] :
            t \in {U_No, X_Blank, <<>>}}
    \cup {[kind |-> "user_message_without_models", text |-> U_No,
           scores |-> <<>>]}
    \cup {[kind |-> "user_message", text |-> U_No, scores |-> s] :
            s \in ProsodyScores}

NoSocketMessage == [kind |-> "none", text |-> <<>>, scores |-> <<>>]

\* The message is a completed speech segment with a transcript: the events
\* for which _handle_connection builds a TurnMessage.
IsSegment(e) ==
  \/ e.kind = "transcription" /\ strip(e.text) # <<>>
  \/ e.kind = "user_message"

\* The dict _handle_connection builds for a segment (websocket.py:130-148).
BuiltMessage(e) ==
  IF e.kind = "transcription"
  THEN TurnMessage(strip(e.text))
  ELSE [TurnMessage(e.text) EXCEPT
          !.emotions = process_emotion_data(e.scores)]

\* websockets.connect succeeds (websocket.py:54-55).
Connect ==
  /\ tpc = "connecting"
  /\ tpc' = "listening"
  /\ UNCHANGED <<tevent, tbuilt, segments>>
  /\ UNCHANGED <<loopVars, gateVars, normVars, sttVars, recVars>>

\* websockets.connect raises; connect logs, sleeps and tries again
\* (websocket.py:57-62).
ConnectFails ==
  /\ tpc = "connecting"
  /\ tpc' = "sleeping"
  /\ UNCHANGED <<tevent, tbuilt, segments>>
  /\ UNCHANGED <<loopVars, gateVars, normVars, sttVars, recVars>>

\* asyncio.sleep(5) has returned (websocket.py:59, 62).
Reconnect ==
  /\ tpc = "sleeping"
  /\ tpc' = "connecting"
  /\ UNCHANGED <<tevent, tbuilt, segments>>
  /\ UNCHANGED <<loopVars, gateVars, normVars, sttVars, recVars>>

\* _handle_connection receives a message that is no segment: the `async
\* for` goes on to the next message (websocket.py:118-152).
ReceiveOther ==
  /\ tpc = "listening"
  /\ \E e \in SocketMessages :
        /\ ~IsSegment(e)
        /\ tevent' = e
  /\ UNCHANGED <<tpc, tbuilt, segments>>
  /\ UNCHANGED <<loopVars, gateVars, normVars, sttVars, recVars>>

\* _handle_connection receives a segment and returns the TurnMessage it
\* builds (websocket.py:130-148).
ReceiveSegment ==
  /\ tpc = "listening"
  /\ segments < MaxSegments
  /\ \E e \in SocketMessages :
        /\ IsSegment(e)
        /\ tevent' = e
        /\ tbuilt' = BuiltMessage(e)
  /\ segments' = segments + 1
  /\ tpc' = "returned"
  /\ UNCHANGED <<loopVars, gateVars, normVars, sttVars, recVars>>

\* The socket is closed: the `async for` ends, or raises ConnectionClosed
\* into the except clause of websocket.py:153; _handle_connection returns
\* None.
SocketClosed ==
  /\ tpc = "listening"
  /\ tbuilt' = NoMessage
  /\ tpc' = "returned"
  /\ UNCHANGED <<tevent, segments>>
  /\ UNCHANGED <<loopVars, gateVars, normVars, sttVars, recVars>>

\* `await self._handle_connection(socket)` (websocket.py:56): the value is
\* not bound to anything; the `async with` closes the socket and the
\* `while True` of connect opens the next connection.
HandleConnectionReturned ==
  /\ tpc = "returned"
  /\ tbuilt' = NoMessage
  /\ tevent' = NoSocketMessage
  /\ tpc' = "connecting"
  /\ UNCHANGED segments
  /\ UNCHANGED <<loopVars, gateVars, normVars, sttVars, recVars>>

(* ------------------------------------------------- speech to text *)
\* What _send_to_hume returns when the exchange succeeds: the transcript
\* and up to three prosody scores, highest first (speech_to_text.py:64-90,
\* 106-116).
HumeResults ==
  {[kind |-> "dict", content |-> t,
    scores |-> FirstThree(sorted_by_score(s))] :
      t \in {U_No, <<>>},
      s \in {p \in ProsodyScores : \A i \in DOMAIN p : p[i].score.num}}

NoHumeResult == [kind |-> "none", content |-> <<>>, scores |-> <<>>]

\* What transcribe_audio hands to its caller: None or a (transcript,
\* emotions) pair.
NoTranscription == [kind |-> "none", transcript |-> <<>>, emotions |-> <<>>]

\* SpeechToText._extract_results: the transcript and the three highest
\* scores of a result; ("", []) when the sort or a conversion raises.
extract_results(result) ==
  IF \/ ~ScoresComparable(result.scores)
     \/ \E i \in DOMAIN FirstThree(sorted_by_score(result.scores)) :
           ~FirstThree(sorted_by_score(result.scores))[i].score.num
  THEN [kind |-> "pair", transcript |-> <<>>, emotions |-> <<>>]
  ELSE [kind |-> "pair", transcript |-> result.content,
        emotions |-> process_emotion_data(result.scores)]

\* authenticator.fetch_access_token() (speech_to_text.py:162-168): a token,
\* nothing (ValueError is raised), or an exception; both failures end in the
\* except clause, which returns None.
FetchAccessToken ==
  /\ spc = "fetch_token"
  /\ \E o \in {"ok", "none", "raise"} :
        /\ stoken' = o
        /\ IF o = "ok"
           THEN spc' = "process_audio" /\ UNCHANGED sreturn
           ELSE spc' = "returned" /\ sreturn' = NoTranscription
  /\ UNCHANGED <<saudio, sresult>>
  /\ UNCHANGED <<loopVars, gateVars, normVars, transportVars, recVars>>

\* _process_audio (speech_to_text.py:171-175, 196-219): the encoded audio,
\* or None when the encoding raised.
ProcessAudio ==
  /\ spc = "process_audio"
  /\ \E o \in {"ok", "none"} :
        /\ saudio' = o
        /\ IF o = "ok"
           THEN spc' = "send_to_hume" /\ UNCHANGED sreturn
           ELSE spc' = "returned" /\ sreturn' = NoTranscription
  /\ UNCHANGED <<stoken, sresult>>
  /\ UNCHANGED <<loopVars, gateVars, normVars, transportVars, recVars>>

\* _send_to_hume (speech_to_text.py:185-189): a result, or None when the
\* connection failed.
SendToHume ==
  /\ spc = "send_to_hume"
  /\ \E r \in HumeResults \cup {NoHumeResult} :
        /\ sresult' = r
        /\ IF r.kind = "dict"
           THEN spc' = "after_send" /\ UNCHANGED sreturn
           ELSE spc' = "returned" /\ sreturn' = NoTranscription
  /\ UNCHANGED <<stoken, saudio>>
  /\ UNCHANGED <<loopVars, gateVars, normVars, transportVars, recVars>>

\* After the check of the result the try block of _transcribe_audio_async
\* ends (speech_to_text.py:189-190): no return statement follows, the
\* coroutine returns None and transcribe_audio returns that (line 144).
EndOfTry ==
  /\ spc = "after_send"
  /\ sreturn' = NoTranscription
  /\ spc' = "returned"
  /\ UNCHANGED <<stoken, saudio, sresult>>
  /\ UNCHANGED <<loopVars, gateVars, normVars, transportVars, recVars>>

\* The next call of transcribe_audio.
TranscribeAgain ==
  /\ spc = "returned"
  /\ spc' = "fetch_token"
  /\ stoken' = "unset"
  /\ saudio' = "unset"
  /\ sresult' = NoHumeResult
  /\ sreturn' = NoTranscription
  /\ UNCHANGED <<loopVars, gateVars, normVars, transportVars, recVars>>

(* ------------------------------------------------------ the recorder *)
RecorderThreads == 1..NumRecorderThreads

\* The first entry of st.session_state.messages (chat_box.py:17-22).
T_welcome ==
  <<"H", "e", "l", "l", "o", ",", " ", "w", "e", "l", "c", "o", "m", "e",
    " ", "t", "o", " ", "T", "A", "F", "E", "P", "!", " ", "H", "o", "w",
    " ", "m", "a", "y", " ", "I", " ", "a", "s", "s", "i", "s", "t", " ",
    "y", "o", "u", " ", "t", "o", "d", "a", "y", "?">>

\* ChatBox._validate_message
validate_message(role, content) ==
  /\ role \in {"user", "assistant"}
  /\ content # <<>>
  /\ strip(content) # <<>>

\* ChatBox.add_message on the list of messages: the list afterwards.
add_message(list, role, content) ==
  IF ~validate_message(role, content)
  THEN list
  ELSE Append(IF Len(list) >= MAX_MESSAGES THEN Tail(list) ELSE list,
              [role |-> role, content |-> strip(content)])

\* A call is between setting the flag and the end of its finally clause.
Executing(t) ==
  rpc[t] \in {"transcribe", "add_user", "generate", "add_assistant",
              "except", "finally"}

\* process_recording is called (recorder.py:38-41): with no audio, or while
\* is_processing is set, it returns at once; otherwise it enters the try
\* block.
ProcessRecording(t) ==
  /\ rpc[t] = "idle"
  /\ recordings < MaxRecordings
  /\ recordings' = recordings + 1
  /\ \E audio \in {"empty", "bytes"} :
        /\ raudio' = [raudio EXCEPT ![t] = audio]
        /\ IF audio = "empty" \/ is_processing
           THEN /\ rlast' = [rlast EXCEPT ![t] = "skipped"]
                /\ UNCHANGED rpc
           ELSE /\ rpc' = [rpc EXCEPT ![t] = "try"]
                /\ rlast' = [rlast EXCEPT ![t] = "entered"]
  /\ UNCHANGED <<is_processing, rresult, messages, transcriptions>>
  /\ UNCHANGED <<loopVars, gateVars, normVars, transportVars, sttVars>>

\* recorder.py:43
SetProcessing(t) ==
  /\ rpc[t] = "try"
  /\ is_processing' = TRUE
  /\ rpc' = [rpc EXCEPT ![t] = "transcribe"]
  /\ UNCHANGED <<raudio, rresult, rlast, messages, transcriptions, recordings>>
  /\ UNCHANGED <<loopVars, gateVars, normVars, transportVars, sttVars>>

\* recorder.py:46-49: the injected speech_to_text.transcribe_audio returns
\* None, returns a (transcript, emotions) pair, or raises.
Transcribe(t) ==
  /\ rpc[t] = "transcribe"
  /\ transcriptions' = transcriptions + 1
  /\ \E r \in {NoTranscription, [NoTranscription EXCEPT !.kind = "raise"]}
               \cup {[kind |-> "pair", transcript |-> u, emotions |-> <<>>] :
                       u \in {U_No, X_Blank}} :
        /\ rresult' = [rresult EXCEPT ![t] = r]
        /\ rpc' = [rpc EXCEPT ![t] =
                     CASE r.kind = "raise" -> "except"
                       [] r.kind = "none" -> "finally"
                       [] OTHER -> "add_user"]
        /\ rlast' = [rlast EXCEPT ![t] =
                       IF r.kind = "none" THEN "none" ELSE @]
  /\ UNCHANGED <<is_processing, raudio, messages, recordings>>
  /\ UNCHANGED <<loopVars, gateVars, normVars, transportVars, sttVars>>

\* recorder.py:52-56
AddUserMessage(t) ==
  /\ rpc[t] = "add_user"
  /\ messages' = add_message(messages, "user", rresult[t].transcript)
  /\ rpc' = [rpc EXCEPT ![t] = "generate"]
  /\ UNCHANGED <<is_processing, raudio, rresult, rlast, transcriptions,
                 recordings>>
  /\ UNCHANGED <<loopVars, gateVars, normVars, transportVars, sttVars>>

\* recorder.py:59-63: conversation_handler.generate_response raises (the
\* ConversationHandler of src/ has no such method: AttributeError), or
\* returns a reply or nothing.
RecorderGenerate(t) ==
  /\ rpc[t] = "generate"
  /\ \E g \in {[kind |-> "raise", text |-> <<>>]}
               \cup {[kind |-> "str", text |-> u] : u \in {T_probe, <<>>}} :
        /\ rresult' = [rresult EXCEPT ![t].transcript = g.text]
        /\ rpc' = [rpc EXCEPT ![t] =
                     CASE g.kind = "raise" -> "except"
                       [] g.text = <<>> -> "finally"
                       [] OTHER -> "add_assistant"]
        /\ rlast' = [rlast EXCEPT ![t] =
                       IF g.kind = "str" /\ g.text = <<>> THEN "done" ELSE @]
  /\ UNCHANGED <<is_processing, raudio, messages, transcriptions, recordings>>
  /\ UNCHANGED <<loopVars, gateVars, normVars, transportVars, sttVars>>

\* recorder.py:64-67
AddAssistantMessage(t) ==
  /\ rpc[t] = "add_assistant"
  /\ messages' = add_message(messages, "assistant", rresult[t].transcript)
  /\ rpc' = [rpc EXCEPT ![t] = "finally"]
  /\ rlast' = [rlast EXCEPT ![t] = "done"]
  /\ UNCHANGED <<is_processing, raudio, rresult, transcriptions, recordings>>
  /\ UNCHANGED <<loopVars, gateVars, normVars, transportVars, sttVars>>

\* A plausible slip: the flag is reset at the end of the try block only, so
\* the except clause returns with the flag as it is.
RecorderExcept_returns(t) ==
  /\ rpc[t] = "except"
  /\ rpc' = [rpc EXCEPT ![t] = "idle"]
  /\ rlast' = [rlast EXCEPT ![t] = "raised"]
  /\ rresult' = [rresult EXCEPT ![t] = NoTranscription]
  /\ UNCHANGED <<is_processing, raudio, messages, transcriptions, recordings>>
  /\ UNCHANGED <<loopVars, gateVars, normVars, transportVars, sttVars>>

\* recorder.py:69-71: the exception is logged and shown.
RecorderExcept(t) ==
  /\ rpc[t] = "except"
  /\ rpc' = [rpc EXCEPT ![t] = "finally"]
  /\ rlast' = [rlast EXCEPT ![t] = "raised"]
  /\ UNCHANGED <<is_processing, raudio, rresult, messages, transcriptions,
                 recordings>>
  /\ UNCHANGED <<loopVars, gateVars, normVars, transportVars, sttVars>>

\* recorder.py:72-73, and the return of the call.
RecorderFinally(t) ==
  /\ rpc[t] = "finally"
  /\ is_processing' = FALSE
  /\ rpc' = [rpc EXCEPT ![t] = "idle"]
  /\ rresult' = [rresult EXCEPT ![t] = NoTranscription]
  /\ UNCHANGED <<raudio, rlast, messages, transcriptions, recordings>>
  /\ UNCHANGED <<loopVars, gateVars, normVars, transportVars, sttVars>>

(* --------------------------------------------------------- specifications *)
InitLoop ==
  /\ conversation_state = InitialState
  /\ conversation_repository = <<>>
  /\ transcript_queue = <<>>
  /\ processing_lock = FALSE
  /\ lpc = "start"
  /\ message = NoMessage
  /\ response = <<>>
  /\ is_processing_response = FALSE
  /\ produced = 0
  /\ taken = 0
  /\ probing_questions = 0
  /\ turn = IdleTurn

\* TextToSpeech.__init__ and WebSocketConnection.__init__; `registered`
\* tells whether register_speaking_callback(on_tts_state_change) has been
\* called when the run starts.
InitGate(registered) ==
  /\ is_tts_speaking = FALSE
  /\ speaking_callback = registered
  /\ speaking_event = TRUE
  /\ speaking_lock = Nobody
  /\ gpc = [c \in Callers |-> "idle"]
  /\ gtext = [c \in Callers |-> <<>>]
  /\ gmethod = [c \in Callers |-> "none"]
  /\ window = {}
  /\ notified = [c \in Callers |-> <<>>]

InitNormOff ==
  /\ nIn = <<>>
  /\ nVar = <<>>
  /\ nPerturbed = 0
  /\ nPhase = "off"
  /\ n1 = <<>>
  /\ nVar1 = <<>>
  /\ n2 = <<>>
  /\ nHandler = "None"
  /\ nVarHandler = "None"

\* The transport, transcribe_audio and the recorder before their first
\* statements (WebSocketConnection.connect, SpeechToText.transcribe_audio,
\* AudioRecorder.__init__ and ChatBox._initialize_session_state); the
\* arguments are their positions, "off" for a part that is not running.
InitIngest(transport, transcribe, recorder) ==
  /\ tpc = transport
  /\ tevent = NoSocketMessage
  /\ tbuilt = NoMessage
  /\ segments = 0
  /\ spc = transcribe
  /\ stoken = "unset"
  /\ saudio = "unset"
  /\ sresult = NoHumeResult
  /\ sreturn = NoTranscription
  /\ is_processing = FALSE
  /\ messages = <<[role |-> "assistant", content |-> T_welcome]>>
  /\ rpc = [t \in RecorderThreads |-> recorder]
  /\ raudio = [t \in RecorderThreads |-> "empty"]
  /\ rresult = [t \in RecorderThreads |-> NoTranscription]
  /\ rlast = [t \in RecorderThreads |-> "no_call"]
  /\ transcriptions = 0
  /\ recordings = 0

\* The conversation loop, its producer and its use of the gate; the
\* speaking callback has been registered before the loop is started.
Init == InitLoop /\ InitGate(TRUE) /\ InitNormOff
          /\ InitIngest("off", "off", "off")

Next ==
  \/ Put
  \/ Greet
  \/ GreetDone
  \/ Timeout
  \/ TimeoutContinue
  \/ TakeIgnored
  \/ TakeTranscript
  \/ GenerateResponse
  \/ RespondNothing
  \/ RespondSpeak
  \/ SpeakDone
  \/ ResetFlag
  \/ GateStep(LoopCaller)

Spec == Init /\ [][Next]_vars

\* The loop's own steps. The loop is one coroutine that the event loop keeps
\* running, and the calls it awaits return: a step of it that stays possible
\* is eventually taken.
Progress ==
  \/ Greet
  \/ GreetDone
  \/ TimeoutContinue
  \/ TakeIgnored
  \/ TakeTranscript
  \/ GenerateResponse
  \/ RespondNothing
  \/ RespondSpeak
  \/ SpeakDone
  \/ ResetFlag
  \/ GateStep(LoopCaller)

NextLive ==
  \/ PutLive
  \/ Timeout
  \/ Progress

SpecLive == Init /\ [][NextLive]_vars /\ WF_vars(Progress)

\* The gate under concurrent callers; the callback may be registered at
\* any time, or never.
InitG == InitLoop /\ InitGate(FALSE) /\ InitNormOff
          /\ InitIngest("off", "off", "off")

NextGate ==
  \/ RegisterSpeakingCallback
  \/ \E c \in ExternalCallers :
        \/ ExternalSpeak(c)
        \/ GateStep(c)
        \/ ExternalReturn(c)

SpecGate == InitG /\ [][NextGate]_vars

\* normalize_string on enumerated inputs and their variants.
InitNorm ==
  /\ InitLoop
  /\ InitGate(FALSE)
  /\ nIn \in NormInputs
  /\ nVar = nIn
  /\ nPerturbed = 0
  /\ nPhase = "input"
  /\ n1 = <<>>
  /\ nVar1 = <<>>
  /\ n2 = <<>>
  /\ nHandler = "None"
  /\ nVarHandler = "None"
  /\ InitIngest("off", "off", "off")

NextNorm ==
  \/ FlipCase
  \/ InsertNonLetter
  \/ Normalize
  \/ Renormalize

SpecNorm == InitNorm /\ [][NextNorm]_vars

\* The transport: connect and _handle_connection on the messages of the
\* socket, next to the queue the conversation loop reads (the loop is not
\* started).
InitTransport ==
  /\ InitLoop
  /\ InitGate(FALSE)
  /\ InitNormOff
  /\ InitIngest("connecting", "off", "off")

NextTransport ==
  \/ Connect
  \/ ConnectFails
  \/ Reconnect
  \/ ReceiveOther
  \/ ReceiveSegment
  \/ SocketClosed
  \/ HandleConnectionReturned

SpecTransport == InitTransport /\ [][NextTransport]_vars

\* SpeechToText.transcribe_audio, called again and again.
InitTranscribe ==
  /\ InitLoop
  /\ InitGate(FALSE)
  /\ InitNormOff
  /\ InitIngest("off", "fetch_token", "off")

NextTranscribe ==
  \/ FetchAccessToken
  \/ ProcessAudio
  \/ SendToHume
  \/ EndOfTry
  \/ TranscribeAgain

SpecTranscribe == InitTranscribe /\ [][NextTranscribe]_vars

\* One AudioRecorder whose process_recording is called from
\* NumRecorderThreads threads.
InitRec ==
  /\ InitLoop
  /\ InitGate(FALSE)
  /\ InitNormOff
  /\ InitIngest("off", "off", "idle")

NextRecorder ==
  \E t \in RecorderThreads :
     \/ ProcessRecording(t)
     \/ SetProcessing(t)
     \/ Transcribe(t)
     \/ AddUserMessage(t)
     \/ RecorderGenerate(t)
     \/ AddAssistantMessage(t)
     \/ RecorderExcept(t)
     \/ RecorderFinally(t)

SpecRecorder == InitRec /\ [][NextRecorder]_vars

(* ------------------------------------------------------------ properties *)
LockHolders == {"event", "notify", "synth", "play", "except", "finally"}

\* C1: speech output gate mutual exclusion. Of any two callers of speak with
\* non-blank text, at most one is inside the lock; the speaking windows (from
\* a delivered speaking=true to the delivered speaking=false) of two callers
\* never overlap; and no caller is synthesising or playing while another
\* caller's speaking=false notification is still outstanding.
C1_GateMutualExclusion ==
  \A c, d \in Callers :
     c # d =>
       /\ ~(gpc[c] \in LockHolders /\ gpc[d] \in LockHolders)
       /\ ~(c \in window /\ d \in window)
       /\ (gpc[d] \in {"synth", "play"} => c \notin window)

\* C1 witness: a second call waits for the lock while the first call, whose
\* speaking=true has been delivered, is playing.
C1_Witness ==
  \E c, d \in ExternalCallers :
     /\ c # d
     /\ gpc[c] = "play"
     /\ c \in window
     /\ gpc[d] = "lock"
     /\ ~IsBlank(gtext[d])

\* C2 (as claimed): every accepted turn ends with an utterance handed to the
\* speech output gate, the reply or a fallback apology; no accepted turn
\* reaches the end of its processing without one.
C2_EveryTurnSpeaks == (lpc = "finally") => turn.routed

CanonicalKeys ==
  {K_establishissue, K_categorizediscriminationtype,
   K_probeforfurtherinformation, K_askaboutfilingcase, K_closureconversation}

\* C3: when the classifier's output is not one of the five labels after
\* normalisation (provider failure, empty text, "42", an exception), no
\* handler is invoked, no call is made and no field of conversation_state
\* changes during the turn; the response is "Error".
C3_ErrorCategoryLeavesState ==
  (turn.generated /\ normalize_string(turn.category) \notin CanonicalKeys) =>
     /\ turn.handler = "None"
     /\ turn.calls = <<>>
     /\ conversation_state = turn.pre
     /\ response = S_Error

\* C3 witness: a turn classified "42" after an earlier turn has established
\* the issue.
C3_Witness ==
  /\ turn.generated
  /\ turn.category = X_FortyTwo
  /\ turn.pre.issue_established
  /\ conversation_state = turn.pre

\* C4: at most one turn is in flight. While an utterance of the loop is in
\* the gate (from the speak call until the call has returned to the loop),
\* the loop is waiting for that call: it is not taking a message,
\* not classifying and not running a handler; and only the positions of a
\* turn in flight have a message in hand.
C4_OneTurnInFlight ==
  /\ (lpc \in {"start", "get", "timeout", "generate", "respond", "finally"} =>
        gpc[LoopCaller] = "idle")
  /\ (lpc \in {"start", "greeting", "get", "timeout"} <=> message = NoMessage)
  /\ (lpc \in {"start", "greeting", "get", "timeout"} <=> ~turn.active)

\* C4 witness: the next TurnMessage waits in the queue while the reply of the
\* turn in flight is being played.
C4_Witness ==
  /\ lpc = "speaking"
  /\ gpc[LoopCaller] = "play"
  /\ transcript_queue # <<>>
  /\ IsTranscript(Head(transcript_queue))

\* C5: the processing flag is true from the acceptance of a TurnMessage
\* until the speak call of its utterance has returned: it is true while the
\* turn is classified and handled, and while its utterance is in the gate.
C5_FlagCoversTurn ==
  /\ (lpc \in {"generate", "respond", "speaking"} => is_processing_response)
  /\ ((turn.routed /\ gpc[LoopCaller] # "idle") => is_processing_response)

\* C5 witness: the flag is set while the reply is being synthesised.
C5_Witness ==
  /\ turn.routed
  /\ gpc[LoopCaller] = "synth"
  /\ is_processing_response

LoopPositions ==
  {"start", "greeting", "get", "timeout", "generate", "respond", "speaking",
   "finally"}

\* C6: handling one turn raises no uncaught fault on any path: the loop never
\* leaves its positions, an exception raised by the classifier, a handler or
\* the email send is turned into the "Error" response, and whenever the loop
\* is back at the queue the processing flag is false and no turn is active,
\* so the next TurnMessage is taken.
C6_TurnFailuresAbsorbed ==
  /\ lpc \in LoopPositions
  /\ (lpc \in {"start", "greeting", "get", "timeout"} =>
        ~is_processing_response /\ ~turn.active)
  /\ ((turn.generated /\ (turn.raised \/ turn.mail = "raise")) =>
        response = S_Error)

\* C6 witness: a turn whose handler raised is about to end, and the next
\* TurnMessage is waiting.
C6_Witness ==
  /\ lpc = "finally"
  /\ turn.raised
  /\ turn.handler # "None"
  /\ response = S_Error
  /\ transcript_queue # <<>>
  /\ IsTranscript(Head(transcript_queue))

Count(seq, x) == Cardinality({i \in DOMAIN seq : seq[i] = x})

\* The oracle answers of the turn in flight, as recorded.
TurnOracle ==
  [cls |-> [kind |-> "ok", text |-> L_AskAboutFilingCase],
   gen |-> turn.gen, mail |-> turn.mail]

\* The response of a turn whose handler is _ask_to_file_case, for the input
\* and the oracle answers of the turn in flight.
AskResponse ==
  Dispatch(L_AskAboutFilingCase, "_ask_to_file_case", turn.input, TurnOracle,
           AI_MODEL, turn.pre).reply

\* C7: probe cascade. When _probe_further_information runs with probe_counter
\* = PROBE_LIMIT - 1, afterwards probe_counter = PROBE_LIMIT and
\* probing_completed is true, no probing question has been generated, and the
\* response of the turn is what _ask_to_file_case gives for the same input.
C7_ProbeCascade ==
  (/\ turn.generated
   /\ turn.handler = "_probe_further_information"
   /\ turn.pre.probe_counter = PROBE_LIMIT - 1) =>
     /\ conversation_state.probe_counter = PROBE_LIMIT
     /\ conversation_state.probing_completed
     /\ Count(turn.calls, "probe") = 0
     /\ response = AskResponse

\* C7 witness: the cascade gave the consent question.
C7_Witness ==
  /\ turn.generated
  /\ turn.handler = "_probe_further_information"
  /\ turn.pre.probe_counter = PROBE_LIMIT - 1
  /\ response = T_ask

\* _ask_to_file_case ran in the turn in flight: dispatched, or handed over
\* to by _probe_further_information at the limit.
AskRan ==
  /\ turn.generated
  /\ \/ turn.handler = "_ask_to_file_case"
     \/ /\ turn.handler = "_probe_further_information"
        /\ turn.pre.probe_counter + 1 >= PROBE_LIMIT

\* C8 (as claimed): filing consent. When _ask_to_file_case runs on an input
\* that contains "yes" in some letter case ("Oh YES"), the filing path, the
\* summary generation and the email dispatch, is executed exactly once in the
\* turn and the consent question is not generated; on an input without "yes"
\* ("no") the filing path is not executed.
C8_FilingConsent ==
  AskRan =>
    IF turn.input = U_Yes
    THEN /\ Count(turn.calls, "file_case") = 1
         /\ Count(turn.calls, "summary") = 1
         /\ Count(turn.calls, "send_case_email") = 1
         /\ Count(turn.calls, "ask") = 0
    ELSE /\ Count(turn.calls, "file_case") = 0
         /\ Count(turn.calls, "summary") = 0
         /\ Count(turn.calls, "send_case_email") = 0

C10_NormalizeIdempotent ==
  /\ (nPhase = "done" => n2 = n1)
  /\ (nPhase \in {"normalized", "done"} =>
        /\ nVar1 = n1
        /\ nVarHandler = nHandler
        /\ (nIn \in {L_EstablishIssue, K_establishissue,
                     X_EstablishIssueShouted} =>
              nHandler = "_establish_issue"))

\* C10 witness: " ESTABLISH-ISSUE " and a perturbed variant of it have been
\* normalised, twice, and select _establish_issue.
C10_Witness ==
  /\ nPhase = "done"
  /\ nIn = X_EstablishIssueShouted
  /\ nVar # nIn
  /\ nVarHandler = "_establish_issue"

\* The handler the specification gives each canonical label.
HandlerOfLabel(key) ==
  CASE key = K_establishissue               -> "_establish_issue"
    [] key = K_categorizediscriminationtype -> "_categorize_discrimination"
    [] key = K_probeforfurtherinformation   -> "_probe_further_information"
    [] key = K_askaboutfilingcase           -> "_ask_to_file_case"
    [] key = K_closureconversation          -> "_closure_conversation"

\* The calls a handler can make first.
FirstCalls(handler) ==
  CASE handler = "_establish_issue"           -> {"establish"}
    [] handler = "_categorize_discrimination" -> {"categorize"}
    [] handler = "_probe_further_information" -> {"probe", "ask", "file_case"}
    [] handler = "_ask_to_file_case"          -> {"ask", "file_case"}
    [] handler = "_closure_conversation"      -> {"closure"}
    [] OTHER                                  -> {}

\* The dispatch of the turn in flight agrees with the normalised category.
DispatchAgrees(key) ==
  /\ (turn.handler # "None") <=> (key \in CanonicalKeys)
  /\ (key \in CanonicalKeys =>
        /\ turn.handler = HandlerOfLabel(key)
        /\ turn.calls # <<>>
        /\ Head(turn.calls) \in FirstCalls(turn.handler))
  /\ (key \notin CanonicalKeys =>
        /\ turn.calls = <<>>
        /\ response = S_Error)

\* C11: closed category set. A handler is dispatched if and only if the
\* normalised classifier text is one of the five canonical labels, and then
\* it is the handler of that label that runs; every other text, the "Error"
\* sentinel included, dispatches no handler and the response is "Error".
C11_ClosedCategorySet ==
  turn.generated => DispatchAgrees(normalize_string(turn.category))

\* C11 witness: the classifier gave the sentinel "Error" itself.
C11_Witness ==
  /\ turn.generated
  /\ turn.category = S_Error
  /\ turn.handler = "None"
  /\ response = S_Error

\* C12: in every reachable state probing_completed implies probe_counter >=
\* PROBE_LIMIT, and no step decreases probe_counter.
C12_ProbeCounterMonotone ==
  /\ [](conversation_state.probing_completed =>
          conversation_state.probe_counter >= PROBE_LIMIT)
  /\ [][conversation_state'.probe_counter >=
          conversation_state.probe_counter]_vars

\* C12 witness: probing was completed and a later probe turn counted on.
C12_Witness ==
  /\ conversation_state.probing_completed
  /\ conversation_state.probe_counter > PROBE_LIMIT

\* C13 (as claimed): once a turn has taken the filing path,
\* user_agreed_to_file_case is true in the conversation state.
C13_ConsentRecorded ==
  (turn.generated /\ Count(turn.calls, "file_case") > 0) =>
     conversation_state.user_agreed_to_file_case

\* The arrival numbers of the queued items increase from the head on.
QueueInOrder ==
  \A i \in 1..(Len(transcript_queue) - 1) :
     transcript_queue[i].seq < transcript_queue[i + 1].seq

\* C14: replies are spoken in the order in which their turns were accepted,
\* and never in parallel. An utterance of the loop in the gate is the reply
\* of the message in hand; every message that arrived later is still in the
\* queue, in arrival order, so its turn is accepted, and its reply spoken,
\* only after this one has returned; and outside the speak call no utterance
\* of the loop is in the gate.
C14_RepliesInOrder ==
  /\ QueueInOrder
  /\ (turn.active =>
        \A i \in DOMAIN transcript_queue :
           transcript_queue[i].seq > message.seq)
  /\ ((gpc[LoopCaller] # "idle" /\ lpc # "greeting") =>
        /\ lpc = "speaking"
        /\ turn.active
        /\ turn.routed
        /\ gtext[LoopCaller] = response)

\* C14 witness: the reply of the second message is played after the reply of
\* the first was spoken, while the third message waits.
C14_Witness ==
  /\ lpc = "speaking"
  /\ gpc[LoopCaller] = "play"
  /\ message.seq = 2
  /\ Len(conversation_repository) = 2
  /\ transcript_queue # <<>>

\* Every item put so far is either taken or still queued, in arrival order.
NoneDropped ==
  /\ taken + Len(transcript_queue) = produced
  /\ \A i \in DOMAIN transcript_queue : transcript_queue[i].seq = taken + i
  /\ (turn.active => message.seq = taken)

\* A get takes the head of the queue, once; a TurnMessage becomes the
\* message in hand.
TakesHead ==
  taken' # taken =>
    /\ transcript_queue # <<>>
    /\ taken' = taken + 1
    /\ Head(transcript_queue).seq = taken'
    /\ transcript_queue' = Tail(transcript_queue)
    /\ (IsTranscript(Head(transcript_queue)) =>
          message' = Head(transcript_queue) /\ lpc' = "generate")

\* The k-th item is a TurnMessage waiting in the queue.
Waiting(k) ==
  \E i \in DOMAIN transcript_queue :
     transcript_queue[i].seq = k /\ IsTranscript(transcript_queue[i])

\* The loop has accepted the k-th item.
Accepted(k) == lpc = "generate" /\ message.seq = k

\* C15: every TurnMessage put into the queue is eventually taken by the
\* loop, exactly once and in arrival order, also when it arrives while
\* another turn is being processed; none is dropped (the loop keeps running
\* and the calls it awaits return).
C15_EveryMessageConsumed ==
  /\ []NoneDropped
  /\ [][TakesHead]_vars
  /\ \A k \in 1..MaxLiveMessages : Waiting(k) ~> Accepted(k)

\* C15 witness: the second message has been accepted after the first turn
\* was replied to.
C15_Witness ==
  /\ Accepted(2)
  /\ IsTranscript(message)
  /\ Len(conversation_repository) = 1
  /\ turn.pre # InitialState

\* A step in which an item arrives while a turn is in flight.
ArrivesInFlight == turn.active /\ produced' # produced

TimeoutStep == lpc' # lpc /\ (lpc = "timeout" \/ lpc' = "timeout")

\* C17: a timeout of the wait on the empty queue is a no-op iteration: the
\* loop goes on to the next get, no processing flag is set, no field of the
\* conversation state changes, nothing is appended to the history and
\* nothing is spoken.
C17_TimeoutNoOp ==
  /\ [](lpc = "timeout" =>
          /\ ~is_processing_response
          /\ ~turn.active
          /\ message = NoMessage
          /\ gpc[LoopCaller] = "idle")
  /\ [][TimeoutStep =>
          /\ lpc' \in {"get", "timeout"}
          /\ UNCHANGED <<conversation_state, conversation_repository,
                         transcript_queue, message, response,
                         is_processing_response, turn, gateVars>>]_vars

\* C17 witness: the wait timed out after a turn that was replied to.
C17_Witness ==
  /\ lpc = "timeout"
  /\ conversation_repository # <<>>
  /\ conversation_state.issue_established

\* No caller is between the acquisition of the lock and its release.
GateFree == \A d \in Callers : gpc[d] \notin LockHolders

\* C18: guaranteed release. When a speak call with non-blank text has
\* returned, on the success path or through the except clause, its
\* speaking=false has been delivered and it does not hold the lock; when no
\* other call is inside the lock, the observer's last notification is
\* speaking=false, the lock is free and the event is set; and a call that
\* has acquired the lock always finds the event set, so it can proceed.
C18_GuaranteedRelease ==
  /\ \A c \in Callers :
        (gpc[c] = "returned" /\ ~IsBlank(gtext[c])) =>
           /\ c \notin window
           /\ speaking_lock # c
  /\ (GateFree =>
        /\ speaking_lock = Nobody
        /\ speaking_event
        /\ window = {}
        /\ ~is_tts_speaking)
  /\ \A d \in Callers : gpc[d] = "event" => speaking_event

\* C18 witness: one call has returned and a later call, which acquired the
\* lock after it, finds the event set.
C18_Witness ==
  \E c, d \in ExternalCallers :
     /\ gpc[c] = "returned"
     /\ ~IsBlank(gtext[c])
     /\ gpc[d] = "event"
     /\ speaking_event
     /\ speaking_callback

\* What a speak call with blank text must leave alone.
GateUntouched(c) ==
  /\ UNCHANGED <<is_tts_speaking, speaking_event, speaking_lock, window,
                 speaking_callback>>
  /\ \A d \in Callers \ {c} : gpc'[d] = gpc[d]

\* C19: speak with empty or whitespace-only text is a no-op: the call
\* returns at once, never is at the lock, the event, a notification, the
\* synthesis or the playback, and neither the call nor its return changes
\* the observer's state, the lock, the event or another caller's position,
\* also while another utterance is in flight.
C19_BlankSpeakNoOp ==
  /\ [](\A c \in Callers :
          IsBlank(gtext[c]) => gpc[c] \in {"idle", "returned"})
  /\ [][\A c \in Callers :
          (gpc'[c] # gpc[c] /\ IsBlank(gtext'[c]) /\ gpc[c] = "idle") =>
             gpc'[c] = "returned" /\ GateUntouched(c)]_vars
  /\ [][\A c \in Callers :
          (gpc'[c] # gpc[c] /\ IsBlank(gtext[c]) /\ gpc[c] = "returned") =>
             gpc'[c] = "idle" /\ GateUntouched(c)]_vars

\* C19 witness: a call with whitespace-only text has returned while another
\* caller's utterance is being played.
C19_Witness ==
  \E c, d \in ExternalCallers :
     /\ gpc[c] = "returned"
     /\ gtext[c] = X_Blank
     /\ gpc[d] = "play"
     /\ d \in window

\* _file_case_and_send_email ran in the turn in flight.
FilingRan == turn.generated /\ Count(turn.calls, "file_case") > 0

\* C20: case filing returns the fixed confirmation message if and only if
\* the email send reports success; when the send reports failure or raises
\* (or is not reached), it returns "Error"; and the send is attempted at
\* most once per filing.
C20_FilingResult ==
  FilingRan =>
    /\ Count(turn.calls, "file_case") = 1
    /\ Count(turn.calls, "send_case_email") <= 1
    /\ (response = FILED_MESSAGE <=> turn.mail = "sent")
    /\ (turn.mail # "sent" => response = S_Error)

\* C20 witness: the send reported failure and the filing returned "Error".
C20_Witness ==
  /\ FilingRan
  /\ turn.mail = "not_sent"
  /\ Count(turn.calls, "send_case_email") = 1
  /\ response = S_Error

\* A generation call of the handler that ran in the turn in flight failed:
\* the provider client raised inside generate_ai_response.
GenerationFailed ==
  /\ turn.generated
  /\ turn.handler # "None"
  /\ turn.gen.form = "none"

C22_SelectionRevalidated ==
  (turn.generated /\ turn.handler # "None") =>
     /\ (~turn.pre.issue_established => turn.handler = "_establish_issue")
     /\ ((/\ turn.pre.issue_established
          /\ ~turn.pre.discrimination_type_categorized) =>
           turn.handler = "_categorize_discrimination")

\* A step that writes the conversation state or the history.
WritesConversation ==
  \/ conversation_state' # conversation_state
  \/ conversation_repository' # conversation_repository

\* C23: the conversation state and the history are written only by the one
\* active turn: every step that changes a state field or appends to the
\* history is a step of the turn in flight, taken with the processing flag
\* true before and after it, and never while the loop is idle or waiting on
\* the queue.
C23_SingleWriter ==
  [][WritesConversation =>
       /\ is_processing_response
       /\ is_processing_response'
       /\ turn.active
       /\ turn'.active
       /\ lpc \in {"generate", "respond"}]_vars

\* C23 witness: the turn in flight has changed the state and appended its
\* reply, and the flag is set.
C23_Witness ==
  /\ lpc = "speaking"
  /\ conversation_state # turn.pre
  /\ conversation_repository # <<>>
  /\ is_processing_response

\* The provider answered the handler's prompt of the turn in flight with a
\* sentence.
GenerationSucceeded == turn.generated /\ turn.gen.form = "text"

\* The response of the turn in flight is a reply, and once the loop is past
\* handler.py:58-68 it is the last entry of the history, as an assistant
\* entry, and has been handed to the gate.
ReplySpoken ==
  /\ response # <<>>
  /\ response # S_Error
  /\ (lpc \in {"speaking", "finally"} =>
        /\ turn.routed
        /\ conversation_repository # <<>>
        /\ conversation_repository[Len(conversation_repository)] =
             [role |-> "assistant", content |-> response])

\* C24 (as claimed): when a turn is classified EstablishIssue and the
\* generation succeeds, afterwards issue_established is true whatever it was
\* before, and the non-empty reply is appended to the history as an assistant
\* entry and then spoken; likewise for CategorizeDiscriminationType and
\* discrimination_type_categorized.
C24_EstablishAndCategorize ==
  /\ (GenerationSucceeded /\ turn.handler = "_establish_issue") =>
        conversation_state.issue_established /\ ReplySpoken
  /\ (GenerationSucceeded /\ turn.handler = "_categorize_discrimination") =>
        conversation_state.discrimination_type_categorized /\ ReplySpoken

\* C25 (as claimed): no rollback on generation failure. When the generation
\* of a Probe turn fails and the response is "Error", probe_counter stays
\* incremented and probing_completed stays set once the limit is reached;
\* and a turn that ran _establish_issue (_categorize_discrimination) leaves
\* issue_established (discrimination_type_categorized) true whatever the
\* outcome of its generation.
C25_NoRollback ==
  /\ (/\ GenerationFailed
      /\ response = S_Error
      /\ turn.handler = "_probe_further_information") =>
        /\ conversation_state.probe_counter = turn.pre.probe_counter + 1
        /\ (conversation_state.probe_counter >= PROBE_LIMIT =>
              conversation_state.probing_completed)
  /\ (turn.generated /\ turn.handler = "_establish_issue") =>
        conversation_state.issue_established
  /\ (turn.generated /\ turn.handler = "_categorize_discrimination") =>
        conversation_state.discrimination_type_categorized

\* C26 (as claimed): around each non-empty utterance the registered observer
\* receives exactly one speaking=true notification followed by exactly one
\* speaking=false notification, on the success path and on every failure
\* path (synthesis failure, playback failure).
C26_OneTrueOneFalse ==
  \A c \in Callers :
     (gpc[c] = "returned" /\ ~IsBlank(gtext[c])) =>
        notified[c] = <<TRUE, FALSE>>

\* C27 (as claimed): probe_counter never exceeds PROBE_LIMIT: once it has
\* reached the limit _probe_further_information does not apply its
\* increment, whatever the classifier answers.
C27_ProbeCounterCapped == conversation_state.probe_counter <= PROBE_LIMIT

\* The history the filing path of the turn in flight was given: the list
\* that _generate_response received, which nothing changes before the loop
\* has the response (handler.py:51-58).
FilingHistory == conversation_repository

\* C28 (as claimed): when the filing path runs, the history given to the
\* summary generation and to the email collaborator is the full conversation
\* so far, user utterances and assistant replies in order; the current
\* input, being the latest utterance, is its last entry, as a user entry.
C28_FilingSeesFullHistory ==
  (FilingRan /\ lpc = "respond") =>
     /\ FilingHistory # <<>>
     /\ FilingHistory[Len(FilingHistory)] =
          [role |-> "user", content |-> turn.input]

\* C29: _closure_conversation is stateless. A turn that ran it leaves all
\* five fields of the conversation state as they were, for every input and
\* every prior state, and makes one call, the generation of the closing
\* reply: no case filing, no summary, no email.
C29_ClosureStateless ==
  (turn.generated /\ turn.handler = "_closure_conversation") =>
     /\ conversation_state = turn.pre
     /\ turn.calls = <<"closure">>
     /\ turn.mail = "none"

\* C29 witness: closure ran on an input that contains "yes", in a state that
\* earlier turns have changed.
C29_Witness ==
  /\ turn.generated
  /\ turn.handler = "_closure_conversation"
  /\ turn.input = U_Yes
  /\ turn.pre.issue_established
  /\ turn.pre.probe_counter > 0

\* No boolean progress field goes from true back to false in this step.
FlagsKept ==
  /\ conversation_state.issue_established =>
        conversation_state'.issue_established
  /\ conversation_state.discrimination_type_categorized =>
        conversation_state'.discrimination_type_categorized
  /\ conversation_state.probing_completed =>
        conversation_state'.probing_completed

\* C30: handlers tolerate being invoked out of order. Whatever sequence of
\* categories the classifier answers, issue_established,
\* discrimination_type_categorized and probing_completed never go from true
\* back to false, and probe_counter stays a non-negative integer.
C30_OutOfOrderTolerated ==
  /\ [][FlagsKept]_vars
  /\ [](conversation_state.probe_counter \in Nat)

\* C30 witness: _establish_issue ran after probing was completed on an issue
\* that had not been established, and all fields set before are still set.
C30_Witness ==
  /\ turn.generated
  /\ turn.handler = "_establish_issue"
  /\ ~turn.pre.issue_established
  /\ turn.pre.probing_completed
  /\ conversation_state.issue_established
  /\ conversation_state.probing_completed
  /\ conversation_state.probe_counter = PROBE_LIMIT

OnlyChanged(fields) ==
  \A f \in DOMAIN InitialState \ fields : conversation_state[f] = turn.pre[f]

\* C35: frame of the state-changing handlers. A turn that ran
\* _establish_issue changes no field other than issue_established;
\* _categorize_discrimination none other than
\* discrimination_type_categorized; _probe_further_information none other
\* than probe_counter and probing_completed; _ask_to_file_case, on the
\* consent-prompt path and on the filing path, none of issue_established,
\* discrimination_type_categorized, probe_counter and probing_completed.
C35_HandlerFrames ==
  turn.generated =>
    /\ (turn.handler = "_establish_issue" =>
          OnlyChanged({"issue_established"}))
    /\ (turn.handler = "_categorize_discrimination" =>
          OnlyChanged({"discrimination_type_categorized"}))
    /\ (turn.handler = "_probe_further_information" =>
          OnlyChanged({"probe_counter", "probing_completed"}))
    /\ (turn.handler = "_ask_to_file_case" =>
          OnlyChanged({"user_agreed_to_file_case"}))

\* C35 witness: _ask_to_file_case took the filing path in a state that
\* earlier turns have changed, and a case was filed.
C35_Witness ==
  /\ turn.generated
  /\ turn.handler = "_ask_to_file_case"
  /\ response = FILED_MESSAGE
  /\ turn.pre.issue_established
  /\ turn.pre.probe_counter > 0

\* C36: in a session that starts with probe_counter = 0, at most
\* PROBE_LIMIT - 1 probing questions are generated: the PROBE_LIMIT-th run of
\* _probe_further_information and every later one generates no probing
\* question and hands over to _ask_to_file_case.
C36_ProbingQuestionsBounded ==
  /\ probing_questions <= PROBE_LIMIT - 1
  /\ (/\ turn.generated
      /\ turn.handler = "_probe_further_information"
      /\ turn.pre.probe_counter + 1 >= PROBE_LIMIT) =>
        /\ Count(turn.calls, "probe") = 0
        /\ Head(turn.calls) \in {"ask", "file_case"}

\* C36 witness: a Probe turn after the limit was reached handed over to
\* _ask_to_file_case; all the probing questions the limit allows were asked
\* before.
C36_Witness ==
  /\ turn.generated
  /\ turn.handler = "_probe_further_information"
  /\ turn.pre.probe_counter = PROBE_LIMIT
  /\ probing_questions = PROBE_LIMIT - 1
  /\ Head(turn.calls) = "ask"

\* C37: the greeting is spoken, under the processing lock, before the loop
\* takes the first TurnMessage: until the greeting's speak call has returned
\* nothing is taken from the queue, no turn is classified or handled and the
\* conversation state and the history are as constructed, even if messages
\* are already queued; an item is taken only by the loop waiting at the
\* queue, and then no utterance of the loop is in the gate.
C37_GreetingFirst ==
  /\ [](lpc \in {"start", "greeting"} =>
          /\ taken = 0
          /\ ~turn.active
          /\ message = NoMessage
          /\ conversation_state = InitialState
          /\ conversation_repository = <<>>)
  /\ [](lpc = "greeting" => processing_lock)
  /\ []((taken > 0 /\ ~turn.routed) => gpc[LoopCaller] = "idle")
  /\ [][taken' # taken => lpc = "get" /\ gpc[LoopCaller] = "idle"]_vars

\* C37 witness: the greeting is being played while two messages, a
\* TurnMessage first, wait in the queue.
C37_Witness ==
  /\ lpc = "greeting"
  /\ gpc[LoopCaller] = "play"
  /\ gtext[LoopCaller] = INTRODUCTION
  /\ Len(transcript_queue) = 2
  /\ IsTranscript(Head(transcript_queue))

\* C39: in the gate the speaking event is cleared only by the holder of the
\* speaking lock, at the wait that follows the acquisition, and is set again
\* before the lock is released. Whenever the lock is free the event is set,
\* so a call that has acquired the lock finds the event set and does not
\* block on it; every call inside the lock has a step it can take, and the
\* lock is held only by a call that is inside it: the gate cannot deadlock.
C39_EventFollowsLock ==
  /\ [](speaking_lock = Nobody => speaking_event)
  /\ [](\A c \in Callers :
          /\ (gpc[c] = "event" => speaking_event)
          /\ (gpc[c] \in LockHolders <=> speaking_lock = c)
          /\ (gpc[c] \in LockHolders => ENABLED GateStep(c)))
  /\ [][(speaking_event /\ ~speaking_event') =>
          /\ speaking_lock # Nobody
          /\ speaking_lock' = speaking_lock
          /\ gpc[speaking_lock] = "event"]_vars
  /\ [][(speaking_lock # Nobody /\ speaking_lock' # speaking_lock) =>
          speaking_lock' = Nobody /\ speaking_event']_vars

\* C39 witness: a call has returned, and the next call has acquired the
\* lock, passed the wait and cleared the event.
C39_Witness ==
  \E c, d \in ExternalCallers :
     /\ gpc[c] = "returned"
     /\ ~IsBlank(gtext[c])
     /\ speaking_lock = d
     /\ gpc[d] = "notify"
     /\ ~speaking_event

\* C31: the transport puts exactly one TurnMessage into the transcript queue
\* for each completed speech segment it receives: whenever connect is
\* between two connections, the queue has received as many items as segments
\* were received, the message built by _handle_connection among them.
C31_SegmentsReachQueue ==
  tpc = "connecting" => produced = segments /\ Len(transcript_queue) = segments

\* The emotions are the top three of the scores: at most three pairs taken
\* from the scores, each label once, in the order of non-increasing score,
\* no label left out whose score is greater than one that was taken, and
\* as many as there are scores up to three.
TopThreeOf(emotions, scores) ==
  /\ Len(emotions) <= 3
  /\ \A i, j \in DOMAIN emotions :
        i < j => /\ emotions[i].score >= emotions[j].score
                 /\ emotions[i].label # emotions[j].label
  /\ \A i \in DOMAIN emotions :
        \E k \in DOMAIN scores :
           /\ scores[k].label = emotions[i].label
           /\ scores[k].score.num
           /\ scores[k].score.val = emotions[i].score
  /\ \A k \in DOMAIN scores :
        (\A i \in DOMAIN emotions : emotions[i].label # scores[k].label)
          => \A i \in DOMAIN emotions : scores[k].score.val <= emotions[i].score
  /\ scores = <<>> => emotions = <<>>
  /\ (\A k \in DOMAIN scores : scores[k].score.num)
        => Len(emotions) = (IF Len(scores) < 3 THEN Len(scores) ELSE 3)

\* C32: the emotions of a TurnMessage built from prosody scores are the
\* scores' top three: at most 3 (label, score) pairs, sorted by
\* non-increasing score, no omitted label with a score strictly greater than
\* an included one, and the empty sequence when there are no scores.
C32_EmotionsAreTopThree ==
  (tpc = "returned" /\ tevent.kind = "user_message")
    => /\ tbuilt.kind = "dict"
       /\ TopThreeOf(tbuilt.emotions, tevent.scores)

\* A message with four scores whose last is the highest: the sort moved it to
\* the front and one label was left out.
C32_Witness ==
  /\ tpc = "returned"
  /\ tevent.kind = "user_message"
  /\ Len(tevent.scores) = 4
  /\ Len(tbuilt.emotions) = 3
  /\ tbuilt.emotions[1].label = tevent.scores[4].label
  /\ tbuilt.emotions[1].score > tbuilt.emotions[2].score

\* C33: transcribe_audio yields none only on failure: whenever the token
\* fetch, the audio processing and the Hume exchange have all succeeded and
\* returned a result, it returns the (transcript, emotions) pair extracted
\* from that result.
C33_SuccessYieldsPair ==
  (spc = "returned" /\ stoken = "ok" /\ saudio = "ok" /\ sresult.kind = "dict")
    => sreturn = extract_results(sresult)

\* C38: process_recording releases its busy flag on every path:
\* is_processing is set only while a call is executing, it is clear whenever
\* no call is in progress and at the return of every call that entered the
\* try block (transcription returned none, a step raised, or all steps
\* succeeded), and a call with empty audio or made while is_processing is set
\* returns without transcribing, adding a message or changing the flag (the
\* calling thread is the idle one whose step counts a call and leaves the
\* other threads as they are).
C38_BusyFlagReleased ==
  /\ [](is_processing => \E t \in RecorderThreads : Executing(t))
  /\ []((\A t \in RecorderThreads : rpc[t] = "idle") => ~is_processing)
  /\ [][\A t \in RecorderThreads :
          (rpc[t] # "idle" /\ rpc'[t] = "idle") => ~is_processing']_vars
  /\ [][\A t \in RecorderThreads :
          (/\ rpc[t] = "idle"
           /\ recordings' # recordings
           /\ \A u \in RecorderThreads \ {t} :
                 rpc'[u] = rpc[u] /\ rlast'[u] = rlast[u]
                                  /\ raudio'[u] = raudio[u]
           /\ raudio'[t] = "empty" \/ is_processing)
            => /\ rpc'[t] = "idle"
               /\ UNCHANGED <<is_processing, messages, transcriptions>>]_vars

\* No call is in progress and the flag is clear after one thread's call
\* ended in the except clause, and another thread's call with audio was
\* turned away by the flag.
C38_Witness ==
  /\ \A t \in RecorderThreads : rpc[t] = "idle"
  /\ ~is_processing
  /\ rlast[1] = "raised"
  /\ rlast[2] = "skipped" /\ raudio[2] = "bytes"
  /\ transcriptions = 1

====
